---- MODULE Spec2Model ----
(***************************************************************************)
(* SnapURL: the link registry (urlService + URL model), the redirect and   *)
(* click counters, and the analytics cleanup endpoint, as a state machine  *)
(* over the MongoDB collections.  Every `await` on the database is one     *)
(* atomic step of the request that issues it; requests interleave between  *)
(* their steps.                                                            *)
(***************************************************************************)
EXTENDS Integers, Sequences, FiniteSets, TLC

VARIABLES
    urls,       \* the URL collection: a set of link documents
    urlCount,   \* User.urlCount, per user
    clicks,     \* the Click collection: a set of click documents
    now,        \* the wall clock (Date.now()), in ticks
    nextId,     \* source of fresh ObjectIds
    started,    \* number of requests begun so far
    calls       \* per request slot: the request in flight and its last result

vars == <<urls, urlCount, clicks, now, nextId, started, calls>>

----------------------------------------------------------------------------
(* Bounds of the model *)

NumProcs == 2       \* request slots that may run concurrently
MaxCalls == 2       \* requests begun in one behaviour of Spec
MaxId    == 2       \* ids a caller may name in update and delete requests
MaxTime  == 2       \* last tick of the clock
MaxSeqCalls   == 3  \* requests begun in one behaviour of SpecResolve
MaxClickCalls == 3  \* requests begun in one behaviour of SpecClicks
MaxQuotaCalls == 3  \* requests begun in one behaviour of SpecQuota
MaxRedirectCalls == 3 \* requests begun in one behaviour of SpecRedirect
MaxGenCalls == 2    \* requests begun in one behaviour of SpecGenerate
MaxOwnerCalls == 2  \* requests begun in one behaviour of SpecOwner
MaxListCalls == 2   \* requests begun in one behaviour of SpecList
MaxLimit == 2       \* largest page size a caller asks for
MaxPopularCalls == 3 \* requests begun in one behaviour of SpecPopular
MaxTripCalls == 3   \* requests begun in one behaviour of SpecRoundTrip
MaxAnalyticsCalls == 2 \* requests begun in one behaviour of SpecAnalytics
MaxClicks == 2      \* Click documents stored when SpecAnalytics begins
MaxCapCalls == 2    \* requests begun in one behaviour of SpecCap
MaxCountCalls == 3  \* requests begun in one behaviour of SpecCount
MaxPairCalls == 2   \* requests begun in one behaviour of SpecPair
MaxReadCalls == 3   \* requests begun in one behaviour of SpecRead

(* Program constants *)

UrlLimit     == 20      \* active links per owner (createUrl)
maxAttempts  == 10      \* candidates tried by _generateUniqueShortCode
maxUrlLength == 2048    \* config.maxUrlLength
MinCodeLen   == 3       \* validateShortCode
MaxCodeLen   == 30      \* validateShortCode
DefaultCodeLength == 8  \* generateShortCode(length = 8)
allowCustomAlias == TRUE    \* config.allowCustomAlias (env unset)
DefaultRetentionDays == 365 \* cleanupAnalyticsData controller default

----------------------------------------------------------------------------
(* Values *)

Procs  == 1..NumProcs
Users  == {"u1", "u2"}
NoUser == "null"            \* userId: null (anonymous link)
NoAlias == << >>            \* customAlias absent (undefined / "")
NoDate == -1                \* a null Date
NoId   == 0                 \* no ObjectId

\* Codes are strings, kept as sequences of characters so that the
\* validator can look at their length and characters.
Lower == {"a", "b", "c", "d", "e", "f", "g", "h", "i", "j", "k", "l", "m",
          "n", "o", "p", "q", "r", "s", "t", "u", "v", "w", "x", "y", "z"}
Upper == {"A", "B", "C", "D", "E", "F", "G", "H", "I", "J", "K", "L", "M",
          "N", "O", "P", "Q", "R", "S", "T", "U", "V", "W", "X", "Y", "Z"}
Digit == <<"0", "1", "2", "3", "4", "5", "6", "7", "8", "9">>
Digits == {Digit[i] : i \in 1..10}
Charset == Lower \cup Upper \cup Digits \cup {"_", "-"} \* /^[A-Za-z0-9_-]+$/

Repeat(ch, n) == [i \in 1..n |-> ch]

\* An original URL as the fields the service inspects: the protocol that
\* new URL(url) parses ("" when parsing throws), the host, the length.
UrlA   == [protocol |-> "https:", host |-> "a.example", length |-> 17]
UrlB   == [protocol |-> "http:",  host |-> "b.example", length |-> 16]
UrlFtp == [protocol |-> "ftp:",   host |-> "c.example", length |-> 15]
NoUrl  == [protocol |-> "", host |-> "", length |-> 0]

\* Outcomes of generateShortCode(): 8 characters of [A-Za-z0-9].
CodeA == Repeat("a", DefaultCodeLength)
CodeZ == Repeat("Z", DefaultCodeLength)
GenCodes == {CodeA, CodeZ}

\* Custom aliases offered by callers: CodeA, which a generated code can
\* equal, and one that uses the extra characters.
AliasGo == <<"g", "o", "_", "1">>

----------------------------------------------------------------------------
(* shortCodeGenerator.validateShortCode *)

ValidateShortCodeErrors(code) ==
    IF Len(code) = 0
    THEN {"Short code is required"}
    ELSE (IF Len(code) < MinCodeLen
            THEN {"Short code is too short (min 3 characters)"} ELSE {})
         \cup
         (IF Len(code) > MaxCodeLen
            THEN {"Short code is too long (max 30 characters)"} ELSE {})
         \cup
         (IF \E i \in 1..Len(code) : code[i] \notin Charset
            THEN {"Short code contains invalid characters"} ELSE {})

validateShortCode(code) ==
    [isValid |-> ValidateShortCodeErrors(code) = {},
     errors  |-> ValidateShortCodeErrors(code)]

(* UrlService._isValidUrl *)
_isValidUrl(url) == url.protocol \in {"http:", "https:"}

isExpired_never(l, t) == FALSE

(* URL.clickThroughRate virtual, in hundredths of a percent point:
   Math.round((uniqueClicks / clickCount) * 100 * 100) / 100, where
   Math.round(x) is floor(x + 1/2) *)
clickThroughRate(l) ==
    IF l.clickCount = 0
    THEN 0
    ELSE (2 * 10000 * l.uniqueClicks + l.clickCount) \div (2 * l.clickCount)

(* URL.isExpired virtual: expiresAt && expiresAt < new Date() *)
isExpired(l, t) == l.expiresAt # NoDate /\ l.expiresAt < t

----------------------------------------------------------------------------
(* Errors, as <<wrapper prefix, message>> *)

ErrInvalidUrl  == "Invalid URL format. URL must start with http:// or https://"
ErrUrlTooLong  == "URL too long"
ErrUrlLimit    == "URL limit reached"
ErrAliasOff    == "Custom aliases are not allowed on this instance"
ErrInvalidAlias == "Invalid custom alias"
ErrAliasTaken  == "Custom alias is already taken"
ErrExhausted   == "Unable to generate unique short code after multiple attempts"
ErrDuplicateKey == "E11000 duplicate key error"
ErrValidation  == "URL validation failed"
ErrUpdateDenied == "URL not found or you don't have permission to update it"
ErrDeleteDenied == "URL not found or you don't have permission to delete it"

CreatePrefix == "URL creation failed"
UpdatePrefix == "URL update failed"
DeletePrefix == "URL deletion failed"

\* What a request returned.  `existed` is a ghost: whether a document with
\* the requested _id was in the collection when the request looked for it.
NoResult == [status |-> "none", error |-> << >>, id |-> NoId,
             isNew |-> FALSE, existed |-> FALSE, counts |-> <<0, 0, 0, 0>>,
             list |-> << >>, total |-> 0]

Ok(id, isNew) == [NoResult EXCEPT !.status = "ok", !.id = id,
                                  !.isNew = isNew, !.existed = TRUE]

Failed(prefix, msg, existed) ==
    [NoResult EXCEPT !.status = "error", !.error = <<prefix, msg>>,
                     !.existed = existed]

NoDoc == [id |-> NoId, originalUrl |-> NoUrl, shortCode |-> NoAlias,
          customAlias |-> NoAlias, userId |-> NoUser, isActive |-> FALSE,
          expiresAt |-> NoDate, clickCount |-> 0, uniqueClicks |-> 0,
          lastClickedAt |-> NoDate, createdAt |-> NoDate]

\* A request slot: the operation, where it stands, its arguments and locals.
Idle == [op |-> "idle", pc |-> "idle", originalUrl |-> NoUrl,
         customAlias |-> NoAlias, userId |-> NoUser, expiresIn |-> 0,
         urlId |-> NoId, hard |-> FALSE, attempts |-> 0, doc |-> NoDoc,
         items |-> << >>, idx |-> 0, successCount |-> 0, errorCount |-> 0,
         skippedCount |-> 0, skipDuplicates |-> FALSE, stopOnError |-> FALSE,
         code |-> NoAlias, incrementView |-> FALSE, ipAddress |-> "",
         isUnique |-> FALSE, dryRun |-> "", retentionDays |-> 0,
         http |-> 0, location |-> NoUrl,
         page |-> 0, limit |-> 0, sortBy |-> "", sortOrder |-> "",
         isActive |-> "", urlIds |-> {},
         startDate |-> -1, endDate |-> -1, excludeBots |-> "",
         result |-> NoResult]

Free(p) == calls[p].pc \in {"idle", "done"}

Begin(p, c) ==
    /\ Free(p)
    /\ started' = started + 1
    /\ calls' = [calls EXCEPT ![p] = c]

\* The request has returned: its arguments and result stay visible in the
\* slot, its locals are gone.
Done(c, r) ==
    [Idle EXCEPT !.op = c.op, !.pc = "done",
                 !.originalUrl = c.originalUrl, !.customAlias = c.customAlias,
                 !.userId = c.userId, !.urlId = c.urlId, !.hard = c.hard,
                 !.items = c.items, !.code = c.code,
                 !.incrementView = c.incrementView,
                 !.ipAddress = c.ipAddress, !.isUnique = c.isUnique,
                 !.dryRun = c.dryRun, !.retentionDays = c.retentionDays,
                 !.http = c.http, !.location = c.location,
                 !.page = c.page, !.limit = c.limit, !.sortBy = c.sortBy,
                 !.sortOrder = c.sortOrder, !.isActive = c.isActive,
                 !.urlIds = c.urlIds,
                 !.startDate = c.startDate, !.endDate = c.endDate,
                 !.excludeBots = c.excludeBots,
                 !.result = r]

Finish(p, r) == calls' = [calls EXCEPT ![p] = Done(calls[p], r)]

----------------------------------------------------------------------------
(* The URL collection *)

MatchCode_aliasOnly(c) == {l \in urls : l.customAlias = c}

\* URL_MODEL.findOne({$or: [{shortCode: c}, {customAlias: c}]}): the
\* documents that match; findOne returns any one of them.
MatchCode(c) == {l \in urls : l.shortCode = c \/ l.customAlias = c}

\* URL_MODEL.countDocuments({userId, isActive: true})
CountActive(user) == Cardinality({l \in urls : l.userId = user /\ l.isActive})

\* URL_MODEL.findOne({originalUrl, userId, isActive: true})
MatchExisting(url, user) ==
    {l \in urls : l.originalUrl = url /\ l.userId = user /\ l.isActive}

MatchOwned_anyOwner(urlId, user) == {l \in urls : l.id = urlId}

\* The filter {_id: urlId, userId} of updateUrl and deleteUrl.
MatchOwned(urlId, user) == {l \in urls : l.id = urlId /\ l.userId = user}

\* Schema validators that run on save() of a new document.
SchemaValid(doc) ==
    /\ validateShortCode(doc.shortCode).isValid
    /\ doc.customAlias # NoAlias => validateShortCode(doc.customAlias).isValid
    /\ doc.originalUrl.protocol # ""
    /\ doc.originalUrl.length <= maxUrlLength

UniqueIndexOk_none(doc) == TRUE

UniqueIndexOk_aliasOnly(doc) ==
    doc.customAlias # NoAlias =>
        \A l \in urls : l.id # doc.id => l.customAlias # doc.customAlias

\* The unique indexes: {shortCode: 1} unique, {customAlias: 1} unique sparse.
UniqueIndexOk(doc) ==
    /\ \A l \in urls : l.id # doc.id => l.shortCode # doc.shortCode
    /\ doc.customAlias # NoAlias =>
          \A l \in urls : l.id # doc.id => l.customAlias # doc.customAlias

\* A variant of NewUrlDoc that stores the chosen code only as shortCode.
NewUrlDoc_codeOnly(id, c, code, t) ==
    [id            |-> id,
     originalUrl   |-> c.originalUrl,
     shortCode     |-> code,
     customAlias   |-> NoAlias,
     userId        |-> c.userId,
     isActive      |-> TRUE,
     expiresAt     |-> IF c.expiresIn # 0 THEN t + c.expiresIn ELSE NoDate,
     clickCount    |-> 0,
     uniqueClicks  |-> 0,
     lastClickedAt |-> NoDate,
     createdAt     |-> t]

\* new URL_MODEL({...}) in createUrl, with the schema defaults.
NewUrlDoc(id, c, code, t) ==
    [id            |-> id,
     originalUrl   |-> c.originalUrl,
     shortCode     |-> code,
     customAlias   |-> c.customAlias,
     userId        |-> c.userId,
     isActive      |-> TRUE,
     expiresAt     |-> IF c.expiresIn # 0 THEN t + c.expiresIn ELSE NoDate,
     clickCount    |-> 0,
     uniqueClicks  |-> 0,
     lastClickedAt |-> NoDate,
     createdAt     |-> t]

----------------------------------------------------------------------------
(* urlService.bulkCreateUrls: the loop around createUrl *)

BulkResult(c) ==
    [NoResult EXCEPT !.status = "ok",
        !.counts = <<c.successCount, c.errorCount, c.skippedCount,
                     c.successCount + c.errorCount + c.skippedCount>>]

BulkPrefix == "Bulk URL creation failed"
ErrNullItem == "Cannot read properties of null (reading 'originalUrl')"

RECURSIVE BulkAdvance(_)

\* The synchronous prefix of createUrl for item idx: the two URL checks.  A
\* throw is caught by the loop body, which counts the failure.
BulkEnterCreate(c) ==
    LET item == c.items[c.idx] IN
    IF ~_isValidUrl(item.originalUrl) \/ item.originalUrl.length > maxUrlLength
    THEN IF c.stopOnError
         THEN BulkAdvance([c EXCEPT !.errorCount = @ + 1,
                                    !.idx = Len(c.items) + 1])
         ELSE BulkAdvance([c EXCEPT !.errorCount = @ + 1, !.idx = @ + 1])
    ELSE [c EXCEPT !.pc = "quota", !.originalUrl = item.originalUrl,
                   !.customAlias = item.customAlias, !.attempts = 0,
                   !.doc = NoDoc]

\* From the top of the loop to the next await.  For an element null,
\* reading urlData.originalUrl throws inside the loop's try (in the duplicate
\* query, or after createUrl rejected the missing URL) and then again inside
\* its catch, which ends the loop and the call in the outer catch.
BulkAdvance(c) ==
    IF c.idx > Len(c.items)
    THEN IF c.successCount > 0
         THEN [c EXCEPT !.pc = "bulkInc"]
         ELSE Done(c, BulkResult(c))
    ELSE IF c.items[c.idx].null
    THEN Done(c, Failed(BulkPrefix, ErrNullItem, FALSE))
    ELSE IF c.skipDuplicates
         THEN [c EXCEPT !.pc = "bulkDup"]
         ELSE BulkEnterCreate(c)

\* createUrl returned or threw inside the loop.
BulkAfterCreate(c, r) ==
    IF r.status = "ok"
    THEN BulkAdvance([c EXCEPT !.successCount = @ + 1, !.idx = @ + 1])
    ELSE IF c.stopOnError
    THEN BulkAdvance([c EXCEPT !.errorCount = @ + 1,
                               !.idx = Len(c.items) + 1])
    ELSE BulkAdvance([c EXCEPT !.errorCount = @ + 1, !.idx = @ + 1])

\* createUrl returns r: to its caller, or to the loop of bulkCreateUrls.
Return(p, r) ==
    IF calls[p].op = "bulkCreateUrls"
    THEN calls' = [calls EXCEPT ![p] = BulkAfterCreate(calls[p], r)]
    ELSE Finish(p, r)

BulkCreateUrlsCall(p, items, user, skipDuplicates, stopOnError) ==
    /\ Begin(p, IF Len(items) = 0
                THEN Done([Idle EXCEPT !.op = "bulkCreateUrls",
                                       !.userId = user],
                          Failed(BulkPrefix, "URLs data array is required",
                                 FALSE))
                ELSE IF Len(items) > 100
                THEN Done([Idle EXCEPT !.op = "bulkCreateUrls",
                                       !.userId = user, !.items = items],
                          Failed(BulkPrefix,
                                 "Maximum 100 URLs allowed per bulk request",
                                 FALSE))
                ELSE BulkAdvance([Idle EXCEPT !.op = "bulkCreateUrls",
                        !.userId = user, !.items = items, !.idx = 1,
                        !.skipDuplicates = skipDuplicates,
                        !.stopOnError = stopOnError]))
    /\ UNCHANGED <<urls, urlCount, clicks, now, nextId>>

\* findOne({originalUrl, userId}): an existing link, active or not, is skipped
BulkCreateUrlsDup(p) ==
    /\ calls[p].op = "bulkCreateUrls" /\ calls[p].pc = "bulkDup"
    /\ LET c == calls[p]
           item == c.items[c.idx] IN
       IF \E l \in urls : l.originalUrl = item.originalUrl
                            /\ l.userId = c.userId
       THEN calls' = [calls EXCEPT ![p] =
                BulkAdvance([c EXCEPT !.skippedCount = @ + 1, !.idx = @ + 1])]
       ELSE calls' = [calls EXCEPT ![p] = BulkEnterCreate(c)]
    /\ UNCHANGED <<urls, urlCount, clicks, now, nextId, started>>

\* User.findByIdAndUpdate(userId, {$inc: {urlCount: successCount}})
BulkCreateUrlsInc(p) ==
    /\ calls[p].op = "bulkCreateUrls" /\ calls[p].pc = "bulkInc"
    /\ urlCount' = [urlCount EXCEPT ![calls[p].userId] =
                        @ + calls[p].successCount]
    /\ Finish(p, BulkResult(calls[p]))
    /\ UNCHANGED <<urls, clicks, now, nextId, started>>

----------------------------------------------------------------------------
(* urlService.createUrl *)

\* The call and its synchronous prefix: the two URL checks.
CreateUrlCall(p, url, alias, user, expiresIn) ==
    /\ LET c == [Idle EXCEPT !.op = "createUrl", !.originalUrl = url,
                     !.customAlias = alias, !.userId = user,
                     !.expiresIn = expiresIn] IN
       Begin(p, IF ~_isValidUrl(url)
                THEN Done(c, Failed(CreatePrefix, ErrInvalidUrl, FALSE))
                ELSE IF url.length > maxUrlLength
                THEN Done(c, Failed(CreatePrefix, ErrUrlTooLong, FALSE))
                ELSE [c EXCEPT !.pc = IF user # NoUser THEN "quota"
                                                       ELSE "alias"])
    /\ UNCHANGED <<urls, urlCount, clicks, now, nextId>>

CreateUrlQuota_offByOne(p) ==
    /\ calls[p].pc = "quota"
    /\ IF CountActive(calls[p].userId) > UrlLimit
       THEN Return(p, Failed(CreatePrefix, ErrUrlLimit, FALSE))
       ELSE calls' = [calls EXCEPT ![p].pc = "dedup"]
    /\ UNCHANGED <<urls, urlCount, clicks, now, nextId, started>>

\* countDocuments({userId, isActive: true}) >= 20
CreateUrlQuota(p) ==
    /\ calls[p].pc = "quota"
    /\ IF CountActive(calls[p].userId) >= UrlLimit
       THEN Return(p, Failed(CreatePrefix, ErrUrlLimit, FALSE))
       ELSE calls' = [calls EXCEPT ![p].pc = "dedup"]
    /\ UNCHANGED <<urls, urlCount, clicks, now, nextId, started>>

\* findOne({originalUrl, userId, isActive: true}): return the existing link
CreateUrlDedup(p) ==
    /\ calls[p].pc = "dedup"
    /\ LET m == MatchExisting(calls[p].originalUrl, calls[p].userId) IN
       IF m # {}
       THEN \E l \in m : Return(p, Ok(l.id, FALSE))
       ELSE calls' = [calls EXCEPT ![p].pc = "alias"]
    /\ UNCHANGED <<urls, urlCount, clicks, now, nextId, started>>

\* What follows a successful code choice, up to issuing save(): the document
\* is built (its _id, expiresAt and createdAt are fixed here).
Prepare(p, code) ==
    /\ calls' = [calls EXCEPT ![p].pc = "save",
                    ![p].doc = NewUrlDoc(nextId, calls[p], code, now)]
    /\ nextId' = nextId + 1

\* customAlias given: validate it, then findOne on both code fields.
CreateUrlCheckAlias(p) ==
    /\ calls[p].pc = "alias"
    /\ calls[p].customAlias # NoAlias
    /\ IF ~allowCustomAlias
       THEN Return(p, Failed(CreatePrefix, ErrAliasOff, FALSE))
            /\ UNCHANGED nextId
       ELSE IF ~validateShortCode(calls[p].customAlias).isValid
       THEN Return(p, Failed(CreatePrefix, ErrInvalidAlias, FALSE))
            /\ UNCHANGED nextId
       ELSE IF MatchCode(calls[p].customAlias) # {}
       THEN Return(p, Failed(CreatePrefix, ErrAliasTaken, FALSE))
            /\ UNCHANGED nextId
       ELSE Prepare(p, calls[p].customAlias)
    /\ UNCHANGED <<urls, urlCount, clicks, now, started>>

CreateUrlGenerate_unbounded(p) ==
    /\ calls[p].pc = "alias"
    /\ calls[p].customAlias = NoAlias
    /\ \E shortCode \in GenCodes :
          IF MatchCode(shortCode) = {}
          THEN Prepare(p, shortCode)
          ELSE /\ calls' = [calls EXCEPT ![p].attempts = @ + 1]
               /\ UNCHANGED nextId
    /\ UNCHANGED <<urls, urlCount, clicks, now, started>>

\* One iteration of _generateUniqueShortCode: a random candidate, findOne on
\* both code fields, and the bound on the number of attempts.
CreateUrlGenerate(p) ==
    /\ calls[p].pc = "alias"
    /\ calls[p].customAlias = NoAlias
    /\ \E shortCode \in GenCodes :
          IF MatchCode(shortCode) = {}
          THEN Prepare(p, shortCode)
          ELSE /\ IF calls[p].attempts + 1 < maxAttempts
                  THEN calls' = [calls EXCEPT ![p].attempts = @ + 1]
                  ELSE Return(p, Failed(CreatePrefix, ErrExhausted, FALSE))
               /\ UNCHANGED nextId
    /\ UNCHANGED <<urls, urlCount, clicks, now, started>>

\* urlDoc.save(): validators, then the insert under the unique indexes.
CreateUrlSave(p) ==
    /\ calls[p].pc = "save"
    /\ LET doc == calls[p].doc IN
       IF ~SchemaValid(doc)
       THEN Return(p, Failed(CreatePrefix, ErrValidation, FALSE))
            /\ UNCHANGED urls
       ELSE IF ~UniqueIndexOk(doc)
       THEN Return(p, Failed(CreatePrefix, ErrDuplicateKey, FALSE))
            /\ UNCHANGED urls
       ELSE /\ urls' = urls \cup {doc}
            /\ IF doc.userId # NoUser
               THEN calls' = [calls EXCEPT ![p].pc = "inc"]
               ELSE Return(p, Ok(doc.id, TRUE))
    /\ UNCHANGED <<urlCount, clicks, now, nextId, started>>

\* User.findByIdAndUpdate(userId, {$inc: {urlCount: 1}})
CreateUrlInc(p) ==
    /\ calls[p].pc = "inc"
    /\ urlCount' = [urlCount EXCEPT ![calls[p].userId] = @ + 1]
    /\ Return(p, Ok(calls[p].doc.id, TRUE))
    /\ UNCHANGED <<urls, clicks, now, nextId, started>>

----------------------------------------------------------------------------
(* urlService.updateUrl, behind validate(schemas.updateUrl) *)

\* The request bodies schemas.updateUrl lets through, as far as they reach a
\* stored field of the model: isActive set or not sent (title and
\* description are not modelled; expiresIn, generateQR and fetchMetadata are
\* no schema paths and are dropped by the update).
UpdatePatches == {[has |-> FALSE, isActive |-> FALSE],
                  [has |-> TRUE,  isActive |-> FALSE],
                  [has |-> TRUE,  isActive |-> TRUE]}

\* A variant of ApplyPatch that writes a fresh document over the stored one.
ApplyPatch_replace(l, patch) ==
    IF patch.has
    THEN [l EXCEPT !.isActive = patch.isActive, !.clickCount = 0]
    ELSE l

ApplyPatch(l, patch) ==
    IF patch.has THEN [l EXCEPT !.isActive = patch.isActive] ELSE l

\* updateData.isActive as the request carries it
PatchArg(patch) ==
    IF patch.has THEN (IF patch.isActive THEN "true" ELSE "false") ELSE ""

\* findOneAndUpdate({_id: urlId, userId}, updateData, {new: true})
UpdateUrl(p, urlId, user, patch) ==
    /\ LET c == [Idle EXCEPT !.op = "updateUrl", !.urlId = urlId,
                             !.userId = user, !.isActive = PatchArg(patch)]
           m == MatchOwned(urlId, user)
           existed == \E l \in urls : l.id = urlId IN
       IF m = {}
       THEN /\ Begin(p, Done(c, Failed(UpdatePrefix, ErrUpdateDenied,
                                       existed)))
            /\ UNCHANGED urls
       ELSE \E l \in m :
            /\ Begin(p, Done(c, Ok(l.id, FALSE)))
            /\ urls' = (urls \ {l}) \cup {ApplyPatch(l, patch)}
    /\ UNCHANGED <<urlCount, clicks, now, nextId>>

----------------------------------------------------------------------------
(* urlService.deleteUrl, called by the controller with (id, userId, hard) *)

\* findOneAndDelete({_id: urlId, userId}); the third argument the
\* controller passes has no parameter to land in.
DeleteUrlCall(p, urlId, user, hardDelete) ==
    /\ LET c == [Idle EXCEPT !.op = "deleteUrl", !.urlId = urlId,
                             !.userId = user, !.hard = hardDelete]
           m == MatchOwned(urlId, user)
           existed == \E l \in urls : l.id = urlId IN
       IF m = {}
       THEN /\ Begin(p, Done(c, Failed(DeletePrefix, ErrDeleteDenied,
                                       existed)))
            /\ UNCHANGED urls
       ELSE \E l \in m :
            /\ Begin(p, [c EXCEPT !.pc = "delInc"])
            /\ urls' = urls \ {l}
    /\ UNCHANGED <<urlCount, clicks, now, nextId>>

\* User.findByIdAndUpdate(userId, {$inc: {urlCount: -1}})
DeleteUrlInc(p) ==
    /\ calls[p].op = "deleteUrl" /\ calls[p].pc = "delInc"
    /\ urlCount' = [urlCount EXCEPT ![calls[p].userId] = @ - 1]
    /\ Finish(p, Ok(calls[p].urlId, FALSE))
    /\ UNCHANGED <<urls, clicks, now, nextId, started>>

----------------------------------------------------------------------------
(* The registry under concurrent requests *)

Init ==
    /\ urls = {}
    /\ urlCount = [u \in Users |-> 0]
    /\ clicks = {}
    /\ now = 0
    /\ nextId = 1
    /\ started = 0
    /\ calls = [p \in Procs |-> Idle]

Item(url, alias) == [originalUrl |-> url, customAlias |-> alias,
                     null |-> FALSE]

\* An element null of the urls array of the request body.
NullItem == [originalUrl |-> NoUrl, customAlias |-> NoAlias, null |-> TRUE]

Next ==
    \/ /\ started < MaxCalls
       /\ \E p \in Procs, url \in {UrlA, UrlB}, alias \in {NoAlias, CodeA},
             user \in {"u1", NoUser} :
               CreateUrlCall(p, url, alias, user, 0)
    \/ \E p \in Procs : CreateUrlQuota(p)
    \/ \E p \in Procs : CreateUrlDedup(p)
    \/ \E p \in Procs : CreateUrlCheckAlias(p)
    \/ \E p \in Procs : CreateUrlGenerate(p)
    \/ \E p \in Procs : CreateUrlSave(p)
    \/ \E p \in Procs : CreateUrlInc(p)
    \/ /\ started < MaxCalls
       /\ \E p \in Procs,
             items \in {<<Item(UrlA, NoAlias), Item(UrlB, CodeA)>>,
                        <<Item(UrlFtp, NoAlias), Item(UrlA, NoAlias)>>,
                        <<Item(UrlB, NoAlias), NullItem>>} :
               BulkCreateUrlsCall(p, items, "u1", TRUE, FALSE)
    \/ \E p \in Procs : BulkCreateUrlsDup(p)
    \/ \E p \in Procs : BulkCreateUrlsInc(p)
    \/ /\ started < MaxCalls
       /\ \E p \in Procs, urlId \in 1..MaxId, user \in Users,
             patch \in UpdatePatches :
               UpdateUrl(p, urlId, user, patch)
    \/ /\ started < MaxCalls
       /\ \E p \in Procs, urlId \in 1..MaxId, user \in Users,
             hardDelete \in BOOLEAN :
               DeleteUrlCall(p, urlId, user, hardDelete)
    \/ \E p \in Procs : DeleteUrlInc(p)

Spec == Init /\ [][Next]_vars

----------------------------------------------------------------------------
(* urlService.getUrlByShortCode *)

RetrievalPrefix == "URL retrieval failed"

\* The result null.
NotFound == [NoResult EXCEPT !.status = "ok"]

MatchActiveCode_any(c) == MatchCode(c)

\* findOne({$or: [{shortCode}, {customAlias: shortCode}], isActive: true})
MatchActiveCode(c) == {l \in MatchCode(c) : l.isActive}

\* The links getUrlByShortCode(c) can return in the current state: found by
\* the query and not expired.
ResolveNow(c) == {l \in MatchActiveCode(c) : ~isExpired(l, now)}

\* A variant of GetUrlByShortCode that counts every lookup as a view.
GetUrlByShortCode_counting(p, shortCode, incrementView) ==
    /\ LET c == [Idle EXCEPT !.op = "getUrlByShortCode", !.code = shortCode,
                             !.incrementView = incrementView]
           m == MatchActiveCode(shortCode) IN
       IF m = {}
       THEN Begin(p, Done(c, NotFound))
       ELSE \E url \in m :
            IF isExpired(url, now)
            THEN Begin(p, Done(c, NotFound))
            ELSE Begin(p, [c EXCEPT !.pc = "viewSave", !.urlId = url.id,
                              !.doc = [url EXCEPT !.clickCount = @ + 1]])
    /\ UNCHANGED <<urls, urlCount, clicks, now, nextId>>

\* The lookup, the expiry check, and (incrementView) the in-memory increment
\* that save() will write.
GetUrlByShortCode(p, shortCode, incrementView) ==
    /\ LET c == [Idle EXCEPT !.op = "getUrlByShortCode", !.code = shortCode,
                             !.incrementView = incrementView]
           m == MatchActiveCode(shortCode) IN
       IF m = {}
       THEN Begin(p, Done(c, NotFound))
       ELSE \E url \in m :
            IF isExpired(url, now)
            THEN Begin(p, Done(c, NotFound))
            ELSE IF incrementView
            THEN Begin(p, [c EXCEPT !.pc = "viewSave", !.urlId = url.id,
                              !.doc = [url EXCEPT !.clickCount = @ + 1]])
            ELSE Begin(p, Done([c EXCEPT !.urlId = url.id],
                               Ok(url.id, FALSE)))
    /\ UNCHANGED <<urls, urlCount, clicks, now, nextId>>

\* url.save() after url.clickCount += 1: $set of the modified path on the
\* document with that _id; it throws when the document is gone.
GetUrlByShortCodeSave(p) ==
    /\ calls[p].op = "getUrlByShortCode" /\ calls[p].pc = "viewSave"
    /\ LET doc == calls[p].doc
           m == {l \in urls : l.id = doc.id} IN
       IF m = {}
       THEN /\ Finish(p, Failed(RetrievalPrefix, "DocumentNotFoundError",
                                FALSE))
            /\ UNCHANGED urls
       ELSE \E l \in m :
            /\ urls' = (urls \ {l})
                        \cup {[l EXCEPT !.clickCount = doc.clickCount]}
            /\ Finish(p, Ok(doc.id, FALSE))
    /\ UNCHANGED <<urlCount, clicks, now, nextId, started>>

----------------------------------------------------------------------------
(* Time, and the TTL index on expiresAt *)

Tick ==
    /\ now < MaxTime
    /\ now' = now + 1
    /\ UNCHANGED <<urls, urlCount, clicks, nextId, started, calls>>

\* index {expiresAt: 1}, expireAfterSeconds: 0: the server removes the
\* documents whose expiresAt has been reached.
TtlDelete ==
    /\ \E l \in urls : l.expiresAt # NoDate /\ l.expiresAt <= now
    /\ urls' = {l \in urls : ~(l.expiresAt # NoDate /\ l.expiresAt <= now)}
    /\ UNCHANGED <<urlCount, clicks, now, nextId, started, calls>>

----------------------------------------------------------------------------
(* Click recording: analyticsService.recordClick around URL.recordClick *)

ErrUnavailable == "URL not found or inactive"
ErrRecordClick == "Failed to record click"

\* The requests that run a click recording: a direct recordClick call, and
\* a redirect, which starts one without awaiting it.
RecordingOps == {"recordClick", "handleRedirect"}

\* The link is loaded and re-validated: it must exist, be active and not be
\* expired.
RecordClickCall(p, urlId, ipAddress) ==
    /\ LET c == [Idle EXCEPT !.op = "recordClick", !.urlId = urlId,
                             !.ipAddress = ipAddress]
           m == {l \in urls : l.id = urlId /\ l.isActive
                                /\ ~isExpired(l, now)} IN
       IF m = {}
       THEN Begin(p, Done(c, Failed("", ErrUnavailable, FALSE)))
       ELSE \E url \in m : Begin(p, [c EXCEPT !.pc = "clickInsert",
                                              !.doc = url])
    /\ UNCHANGED <<urls, urlCount, clicks, now, nextId>>

\* The click is classified (unique: no earlier click of this link from this
\* address) and its Click document is inserted.
RecordClickInsert(p) ==
    /\ calls[p].op \in RecordingOps /\ calls[p].pc = "clickInsert"
    /\ LET c == calls[p]
           unique == ~\E k \in clicks : /\ k.urlId = c.urlId
                                        /\ k.ipAddress = c.ipAddress IN
       /\ clicks' = clicks \cup {[id |-> nextId, urlId |-> c.urlId,
                                  ipAddress |-> c.ipAddress,
                                  isUnique |-> unique, clickedAt |-> now]}
       /\ calls' = [calls EXCEPT ![p].pc = "clickSave",
                                 ![p].isUnique = unique]
    /\ nextId' = nextId + 1
    /\ UNCHANGED <<urls, urlCount, now, started>>

\* The counters of document url after url.recordClick({isUnique}) at time t
\* has changed them in memory.
RecordClickCounters(url, isUnique, t) ==
    [url EXCEPT !.clickCount = @ + 1,
                !.lastClickedAt = t,
                !.uniqueClicks = IF isUnique THEN @ + 1 ELSE @]

\* URL.methods.recordClick on the loaded document: the counters are changed
\* in memory and save() writes the changed paths.
UrlRecordClick(p) ==
    /\ calls[p].op \in RecordingOps /\ calls[p].pc = "clickSave"
    /\ LET c == calls[p]
           doc == RecordClickCounters(c.doc, c.isUnique, now)
           m == {l \in urls : l.id = doc.id} IN
       IF m = {}
       THEN /\ Finish(p, Failed("", ErrRecordClick, FALSE))
            /\ UNCHANGED urls
       ELSE \E l \in m :
            /\ urls' = (urls \ {l})
                        \cup {[l EXCEPT !.clickCount = doc.clickCount,
                                        !.lastClickedAt = doc.lastClickedAt,
                                        !.uniqueClicks =
                                            IF c.isUnique
                                            THEN doc.uniqueClicks ELSE @]}
            /\ Finish(p, Ok(doc.id, FALSE))
    /\ UNCHANGED <<urlCount, clicks, now, nextId, started>>

----------------------------------------------------------------------------
(* POST /api/analytics/cleanup *)

Omitted == "omitted"        \* a field the request body does not carry
NoDays  == -1               \* retentionDays not sent

CleanupDryRun_defaultFalse(dryRunBody) ==
    IF dryRunBody = Omitted THEN FALSE ELSE dryRunBody = "true"

\* const { retentionDays = 365, dryRun = true } = req.body
CleanupDryRun(dryRunBody) ==
    IF dryRunBody = Omitted THEN TRUE ELSE dryRunBody = "true"

CleanupRetention(retentionBody) ==
    IF retentionBody = NoDays THEN DefaultRetentionDays ELSE retentionBody

\* analyticsService.cleanupAnalyticsData({retentionDays, dryRun}): the Click
\* documents older than cutoffDate = now - retentionDays, counted under
\* dryRun and deleted otherwise.
CleanupService(retentionDays, dryRun) ==
    LET old == {k \in clicks : k.clickedAt < now - retentionDays} IN
    [remaining |-> IF dryRun THEN clicks ELSE clicks \ old,
     count     |-> Cardinality(old)]

\* The controller: the admin check, the defaults, the service call.
CleanupAnalyticsData(p, role, retentionBody, dryRunBody) ==
    /\ LET c == [Idle EXCEPT !.op = "cleanup", !.dryRun = dryRunBody,
                             !.retentionDays = retentionBody] IN
       IF role # "admin"
       THEN /\ Begin(p, Done(c, Failed("", "Access denied. Admin role required.",
                                       FALSE)))
            /\ UNCHANGED clicks
       ELSE LET r == CleanupService(CleanupRetention(retentionBody),
                                    CleanupDryRun(dryRunBody)) IN
            /\ Begin(p, Done(c, [NoResult EXCEPT !.status = "ok",
                                    !.counts = <<r.count, 0, 0, 0>>]))
            /\ clicks' = r.remaining
    /\ UNCHANGED <<urls, urlCount, now, nextId>>

----------------------------------------------------------------------------
(* One client at a time: creation with expiry, deactivation, resolution *)

SeqProcs == {1}

NextResolve ==
    \/ /\ started < MaxSeqCalls
       /\ \E p \in SeqProcs, alias \in {NoAlias, AliasGo},
             user \in {"u1", NoUser}, expiresIn \in {0, 1} :
               CreateUrlCall(p, UrlA, alias, user, expiresIn)
    \/ \E p \in SeqProcs : CreateUrlQuota(p)
    \/ \E p \in SeqProcs : CreateUrlDedup(p)
    \/ \E p \in SeqProcs : CreateUrlCheckAlias(p)
    \/ \E p \in SeqProcs : CreateUrlGenerate(p)
    \/ \E p \in SeqProcs : CreateUrlSave(p)
    \/ \E p \in SeqProcs : CreateUrlInc(p)
    \/ /\ started < MaxSeqCalls
       /\ \E p \in SeqProcs, urlId \in 1..MaxId, patch \in UpdatePatches :
               UpdateUrl(p, urlId, "u1", patch)
    \/ /\ started < MaxSeqCalls
       /\ \E p \in SeqProcs, c \in {CodeA, AliasGo},
             incrementView \in BOOLEAN :
               GetUrlByShortCode(p, c, incrementView)
    \/ \E p \in SeqProcs : GetUrlByShortCodeSave(p)
    \/ Tick
    \/ TtlDelete

SpecResolve == Init /\ [][NextResolve]_vars

----------------------------------------------------------------------------
(* Clicks on a link that exists: the state after u1 created one link *)

SeedUrl ==
    NewUrlDoc(1, [originalUrl |-> UrlA, customAlias |-> NoAlias,
                  userId |-> "u1", expiresIn |-> 0], CodeA, 0)

InitClicks ==
    /\ urls = {SeedUrl}
    /\ urlCount = [u \in Users |-> IF u = "u1" THEN 1 ELSE 0]
    /\ clicks = {}
    /\ now = 0
    /\ nextId = 2
    /\ started = 0
    /\ calls = [p \in Procs |-> Idle]

IpAddresses == {"10.0.0.1", "10.0.0.2"}

NextClicks ==
    \/ /\ started < MaxClickCalls
       /\ \E p \in Procs, ip \in IpAddresses : RecordClickCall(p, 1, ip)
    \/ \E p \in Procs : RecordClickInsert(p)
    \/ \E p \in Procs : UrlRecordClick(p)
    \/ /\ started < MaxClickCalls
       /\ \E p \in Procs, incrementView \in BOOLEAN :
               GetUrlByShortCode(p, CodeA, incrementView)
    \/ \E p \in Procs : GetUrlByShortCodeSave(p)
    \/ /\ started < MaxClickCalls
       /\ \E p \in Procs, role \in {"admin", "user"},
             retentionBody \in {NoDays, 0, 1},
             dryRunBody \in {Omitted, "true", "false"} :
               CleanupAnalyticsData(p, role, retentionBody, dryRunBody)
    \/ Tick

SpecClicks == InitClicks /\ [][NextClicks]_vars

\* Click recordings only.
NextRecord ==
    \/ /\ started < MaxClickCalls
       /\ \E p \in Procs, ip \in IpAddresses : RecordClickCall(p, 1, ip)
    \/ \E p \in Procs : RecordClickInsert(p)
    \/ \E p \in Procs : UrlRecordClick(p)

SpecRecord == InitClicks /\ [][NextRecord]_vars

----------------------------------------------------------------------------
(* An owner one link short of the limit: the state after u1 created
   UrlLimit - 1 links for different URLs *)

FillerCode(i) ==
    <<"f", "i", "l", "l", "e", "r", Digit[(i \div 10) + 1], Digit[(i % 10) + 1]>>

FillerUrl(i) ==
    [protocol |-> "https:", host |-> "filler.example", length |-> 100 + i]

Filler(i) ==
    NewUrlDoc(i, [originalUrl |-> FillerUrl(i), customAlias |-> NoAlias,
                  userId |-> "u1", expiresIn |-> 0], FillerCode(i), 0)

InitQuota ==
    /\ urls = {Filler(i) : i \in 1..(UrlLimit - 1)}
    /\ urlCount = [u \in Users |-> IF u = "u1" THEN UrlLimit - 1 ELSE 0]
    /\ clicks = {}
    /\ now = 0
    /\ nextId = UrlLimit
    /\ started = 0
    /\ calls = [p \in Procs |-> Idle]

NextQuota ==
    \/ /\ started < MaxQuotaCalls
       /\ \E p \in SeqProcs, url \in {UrlA, UrlB, UrlFtp},
             alias \in {NoAlias, CodeA}, user \in Users :
               CreateUrlCall(p, url, alias, user, 0)
    \/ \E p \in SeqProcs : CreateUrlQuota(p)
    \/ \E p \in SeqProcs : CreateUrlDedup(p)
    \/ \E p \in SeqProcs : CreateUrlCheckAlias(p)
    \/ \E p \in SeqProcs : CreateUrlGenerate(p)
    \/ \E p \in SeqProcs : CreateUrlSave(p)
    \/ \E p \in SeqProcs : CreateUrlInc(p)
    \/ /\ started < MaxQuotaCalls
       /\ \E p \in SeqProcs, urlId \in UrlLimit..(UrlLimit + 1),
             patch \in UpdatePatches :
               UpdateUrl(p, urlId, "u1", patch)
    \/ /\ started < MaxQuotaCalls
       /\ \E p \in SeqProcs, urlId \in UrlLimit..(UrlLimit + 1) :
               DeleteUrlCall(p, urlId, "u1", TRUE)
    \/ \E p \in SeqProcs : DeleteUrlInc(p)

SpecQuota == InitQuota /\ [][NextQuota]_vars

----------------------------------------------------------------------------
(* redirectController.handleRedirect: GET /:shortCode *)

\* res.redirect(302, url.originalUrl)
RedirectResponse_shortUrl(url) == [http |-> 302, location |-> NoUrl]

RedirectResponse(url) == [http |-> 302, location |-> url.originalUrl]

\* The handler up to its response: getUrlByShortCode(shortCode), then 404
\* for null; otherwise recordClick(clickData) is started, only a catch is
\* attached to its promise, and the redirect is sent.  The slot then holds
\* the response (http, location) while the recording runs on; result is the
\* outcome of the recording's promise, which only the catch handler sees.
HandleRedirect(p, shortCode, ipAddress) ==
    /\ LET c == [Idle EXCEPT !.op = "handleRedirect", !.code = shortCode,
                             !.ipAddress = ipAddress]
           m == MatchActiveCode(shortCode) IN
       IF m = {}
       THEN Begin(p, Done([c EXCEPT !.http = 404], NoResult))
       ELSE \E url \in m :
            IF isExpired(url, now)
            THEN Begin(p, Done([c EXCEPT !.http = 404], NoResult))
            ELSE Begin(p, [c EXCEPT !.pc = "clickLoad", !.urlId = url.id,
                              !.http = RedirectResponse(url).http,
                              !.location = RedirectResponse(url).location])
    /\ UNCHANGED <<urls, urlCount, clicks, now, nextId>>

\* The recording started by a redirect loads and re-validates the link, as
\* RecordClickCall does for a direct call; its rejection goes to the catch
\* handler, which logs it.
RecordClickLoad(p) ==
    /\ calls[p].op = "handleRedirect" /\ calls[p].pc = "clickLoad"
    /\ LET m == {l \in urls : l.id = calls[p].urlId /\ l.isActive
                                /\ ~isExpired(l, now)} IN
       IF m = {}
       THEN Finish(p, Failed("", ErrUnavailable, FALSE))
       ELSE \E url \in m : calls' = [calls EXCEPT ![p].pc = "clickInsert",
                                                   ![p].doc = url]
    /\ UNCHANGED <<urls, urlCount, clicks, now, nextId, started>>

\* Two links of u1: one without expiry, one that expires at tick 1.
SeedExpiring ==
    NewUrlDoc(2, [originalUrl |-> UrlB, customAlias |-> NoAlias,
                  userId |-> "u1", expiresIn |-> 1], CodeZ, 0)

InitRedirect ==
    /\ urls = {SeedUrl, SeedExpiring}
    /\ urlCount = [u \in Users |-> IF u = "u1" THEN 2 ELSE 0]
    /\ clicks = {}
    /\ now = 0
    /\ nextId = 3
    /\ started = 0
    /\ calls = [p \in Procs |-> Idle]

NextRedirect ==
    \/ /\ started < MaxRedirectCalls
       /\ \E p \in Procs, c \in {CodeA, CodeZ, AliasGo} :
               HandleRedirect(p, c, "10.0.0.1")
    \/ \E p \in Procs : RecordClickLoad(p)
    \/ \E p \in Procs : RecordClickInsert(p)
    \/ \E p \in Procs : UrlRecordClick(p)
    \/ /\ started < MaxRedirectCalls
       /\ \E p \in Procs, urlId \in 1..3 : RecordClickCall(p, urlId, "10.0.0.2")
    \/ /\ started < MaxRedirectCalls
       /\ \E p \in Procs, patch \in UpdatePatches :
               UpdateUrl(p, 1, "u1", patch)
    \/ Tick
    \/ TtlDelete

SpecRedirect == InitRedirect /\ [][NextRedirect]_vars

----------------------------------------------------------------------------
(* Code generation while one of the generator's outcomes is taken: the
   state after u1 created the link with code CodeA *)

NextGenerate ==
    \/ /\ started < MaxGenCalls
       /\ \E p \in Procs, user \in {"u1", NoUser} :
               CreateUrlCall(p, UrlB, NoAlias, user, 0)
    \/ \E p \in Procs : CreateUrlQuota(p)
    \/ \E p \in Procs : CreateUrlDedup(p)
    \/ \E p \in Procs : CreateUrlGenerate(p)
    \/ \E p \in Procs : CreateUrlSave(p)
    \/ \E p \in Procs : CreateUrlInc(p)
    \/ /\ started < MaxGenCalls
       /\ \E p \in Procs : DeleteUrlCall(p, 1, "u1", TRUE)
    \/ \E p \in Procs : DeleteUrlInc(p)

\* Every request that has a step to take takes it in the end: the event
\* loop runs each continuation once its database reply has arrived.
SpecGenerate ==
    /\ InitClicks
    /\ [][NextGenerate]_vars
    /\ \A p \in Procs : WF_vars(CreateUrlGenerate(p))

----------------------------------------------------------------------------
(* urlService.getUserUrls, getUrlStats, bulkDeleteUrls *)

\* The value a link is sorted by.
SortKey(l, sortBy) ==
    IF sortBy = "clickCount" THEN l.clickCount ELSE l.createdAt

\* find(query).sort({[sortBy]: dir}): the orders the server may return the
\* documents of set S in.  The sort fixes the order of documents with
\* different keys only; documents with equal keys come in any order, and
\* not in the same one from query to query.
Orderings(S, sortBy, sortOrder) ==
    {f \in [1..Cardinality(S) -> S] :
        /\ \A i, j \in 1..Cardinality(S) : i # j => f[i] # f[j]
        /\ \A i, j \in 1..Cardinality(S) :
              i < j => IF sortOrder = "desc"
                       THEN SortKey(f[i], sortBy) >= SortKey(f[j], sortBy)
                       ELSE SortKey(f[i], sortBy) <= SortKey(f[j], sortBy)}

\* .skip(skip).limit(limit), as the ids of the documents
Slice(f, skip, limit) ==
    [i \in 1..(IF Len(f) - skip > limit THEN limit
               ELSE IF Len(f) - skip > 0 THEN Len(f) - skip ELSE 0)
        |-> f[skip + i].id]

\* Math.ceil(total / limit)
CeilDiv(total, limit) == (total + limit - 1) \div limit

MatchList_anyUser(user, isActive) ==
    {l \in urls : isActive # "null" => l.isActive = (isActive = "true")}

\* query = {userId} plus {isActive} when the option is not null
MatchList(user, isActive) ==
    {l \in urls : /\ l.userId = user
                  /\ isActive # "null" => l.isActive = (isActive = "true")}

\* countDocuments(query), then find(query).sort(sort).skip(skip).limit(limit)
GetUserUrls(p, user, page, limit, sortBy, sortOrder, isActive) ==
    /\ LET c == [Idle EXCEPT !.op = "getUserUrls", !.userId = user,
                             !.page = page, !.limit = limit,
                             !.sortBy = sortBy, !.sortOrder = sortOrder,
                             !.isActive = isActive]
           m == MatchList(user, isActive) IN
       \E f \in Orderings(m, sortBy, sortOrder) :
          Begin(p, Done(c, [NoResult EXCEPT !.status = "ok",
                               !.list = Slice(f, (page - 1) * limit, limit),
                               !.total = Cardinality(m),
                               !.counts = <<CeilDiv(Cardinality(m), limit),
                                            0, 0, 0>>]))
    /\ UNCHANGED <<urls, urlCount, clicks, now, nextId>>

\* findOne({_id: urlId, userId})
GetUrlStats(p, urlId, user) ==
    /\ LET c == [Idle EXCEPT !.op = "getUrlStats", !.urlId = urlId,
                             !.userId = user]
           m == {l \in urls : l.id = urlId /\ l.userId = user} IN
       IF m = {}
       THEN Begin(p, Done(c, Failed("URL statistics retrieval failed",
                                    "URL not found",
                                    \E l \in urls : l.id = urlId)))
       ELSE \E l \in m : Begin(p, Done(c, Ok(l.id, FALSE)))
    /\ UNCHANGED <<urls, urlCount, clicks, now, nextId>>

\* deleteMany({_id: {$in: urlIds}, userId})
BulkDeleteUrlsCall(p, urlIds, user) ==
    /\ LET c == [Idle EXCEPT !.op = "bulkDeleteUrls", !.urlIds = urlIds,
                             !.userId = user]
           m == {l \in urls : l.id \in urlIds /\ l.userId = user} IN
       IF urlIds = {}
       THEN /\ Begin(p, Done(c, Failed("Bulk deletion failed",
                                       "URL IDs array is required", FALSE)))
            /\ UNCHANGED urls
       ELSE /\ urls' = urls \ m
            /\ IF m = {}
               THEN Begin(p, Done(c, [NoResult EXCEPT !.status = "ok"]))
               ELSE Begin(p, [c EXCEPT !.pc = "bulkDelInc",
                                 !.successCount = Cardinality(m)])
    /\ UNCHANGED <<urlCount, clicks, now, nextId>>

\* User.findByIdAndUpdate(userId, {$inc: {urlCount: -deletedCount}})
BulkDeleteUrlsInc(p) ==
    /\ calls[p].op = "bulkDeleteUrls" /\ calls[p].pc = "bulkDelInc"
    /\ urlCount' = [urlCount EXCEPT ![calls[p].userId] =
                        @ - calls[p].successCount]
    /\ Finish(p, [NoResult EXCEPT !.status = "ok",
                     !.counts = <<calls[p].successCount, 0, 0, 0>>])
    /\ UNCHANGED <<urls, clicks, now, nextId, started>>

\* A link as createUrl stored it at tick t.
Stored(id, url, code, user, t) ==
    NewUrlDoc(id, [originalUrl |-> url, customAlias |-> NoAlias,
                   userId |-> user, expiresIn |-> 0], code, t)

\* Three links of u1, of which two were created in the same tick and the
\* third has been deactivated, and one link of u2; nobody has clicked yet.
InitOwner ==
    /\ urls = {Stored(1, UrlA, CodeA, "u1", 0),
               Stored(2, UrlB, CodeZ, "u1", 0),
               [Stored(3, FillerUrl(3), AliasGo, "u1", 1) EXCEPT !.isActive = FALSE],
               Stored(4, UrlA, FillerCode(4), "u2", 1)}
    /\ urlCount = [u \in Users |-> IF u = "u1" THEN 3 ELSE 1]
    /\ clicks = {}
    /\ now = 1
    /\ nextId = 5
    /\ started = 0
    /\ calls = [p \in Procs |-> Idle]

ListOptions ==
    [page : 1..3, limit : 1..MaxLimit, sortBy : {"createdAt", "clickCount"},
     sortOrder : {"desc", "asc"}, isActive : {"null", "true"}]

NextOwner ==
    \/ /\ started < MaxOwnerCalls
       /\ \E p \in Procs, user \in Users, o \in ListOptions :
               /\ o.page = 1 /\ o.sortBy = "createdAt"
               /\ GetUserUrls(p, user, o.page, o.limit, o.sortBy,
                              o.sortOrder, o.isActive)
    \/ /\ started < MaxOwnerCalls
       /\ \E p \in Procs, urlId \in {1, 4}, user \in Users :
               GetUrlStats(p, urlId, user)
    \/ /\ started < MaxOwnerCalls
       /\ \E p \in Procs, urlId \in {1, 4}, user \in Users,
             patch \in UpdatePatches :
               UpdateUrl(p, urlId, user, patch)
    \/ /\ started < MaxOwnerCalls
       /\ \E p \in Procs, urlId \in {1, 4}, user \in Users :
               DeleteUrlCall(p, urlId, user, TRUE)
    \/ \E p \in Procs : DeleteUrlInc(p)
    \/ /\ started < MaxOwnerCalls
       /\ \E p \in Procs, urlIds \in {{2, 4}, {4}, {1, 2}}, user \in Users :
               BulkDeleteUrlsCall(p, urlIds, user)
    \/ \E p \in Procs : BulkDeleteUrlsInc(p)

SpecOwner == InitOwner /\ [][NextOwner]_vars

\* Listings only: nothing is written between the page requests.
NextList ==
    /\ started < MaxListCalls
    /\ \E p \in Procs, o \in ListOptions :
          GetUserUrls(p, "u1", o.page, o.limit, o.sortBy, o.sortOrder,
                      o.isActive)

SpecList == InitOwner /\ [][NextList]_vars

----------------------------------------------------------------------------
(* urlService.getPopularUrls; the clock counts days *)

\* .sort({clickCount: -1, createdAt: -1}): the orders the server may return
\* the documents of S in.
PopularOrderings(S) ==
    {f \in [1..Cardinality(S) -> S] :
        /\ \A i, j \in 1..Cardinality(S) : i # j => f[i] # f[j]
        /\ \A i, j \in 1..Cardinality(S) :
              i < j => \/ f[i].clickCount > f[j].clickCount
                       \/ /\ f[i].clickCount = f[j].clickCount
                          /\ f[i].createdAt >= f[j].createdAt}

\* query: isActive, clickCount >= minClicks, userId when given, and - when
\* days is given - createdAt >= Date.now() - days
MatchPopular(user, days, minClicks) ==
    {l \in urls : /\ l.isActive
                  /\ l.clickCount >= minClicks
                  /\ user # NoUser => l.userId = user
                  /\ days # 0 => l.createdAt >= now - days}

GetPopularUrls(p, user, limit, days, minClicks) ==
    /\ LET c == [Idle EXCEPT !.op = "getPopularUrls", !.userId = user,
                             !.limit = limit, !.retentionDays = days] IN
       \E f \in PopularOrderings(MatchPopular(user, days, minClicks)) :
          Begin(p, Done(c, [NoResult EXCEPT !.status = "ok",
                              !.list = Slice(f, 0, limit),
                              !.total = minClicks]))
    /\ UNCHANGED <<urls, urlCount, clicks, now, nextId>>

NextPopular ==
    \/ /\ started < MaxPopularCalls
       /\ \E p \in Procs, ip \in IpAddresses : RecordClickCall(p, 1, ip)
    \/ \E p \in Procs : RecordClickInsert(p)
    \/ \E p \in Procs : UrlRecordClick(p)
    \/ /\ started < MaxPopularCalls
       /\ \E p \in Procs, user \in {"u1", NoUser}, limit \in 1..MaxLimit,
             days \in 0..1, minClicks \in 1..2 :
               GetPopularUrls(p, user, limit, days, minClicks)
    \/ Tick

SpecPopular == InitClicks /\ [][NextPopular]_vars

----------------------------------------------------------------------------
(* Owner updates of isActive against lookups, on a link without expiry and
   one that expires *)

NextRoundTrip ==
    \/ /\ started < MaxTripCalls
       /\ \E p \in Procs, urlId \in 1..2, patch \in UpdatePatches :
               UpdateUrl(p, urlId, "u1", patch)
    \/ /\ started < MaxTripCalls
       /\ \E p \in Procs, c \in {CodeA, CodeZ}, incrementView \in BOOLEAN :
               GetUrlByShortCode(p, c, incrementView)
    \/ \E p \in Procs : GetUrlByShortCodeSave(p)
    \/ Tick
    \/ TtlDelete

SpecRoundTrip == InitRedirect /\ [][NextRoundTrip]_vars

----------------------------------------------------------------------------
(* GET /api/analytics/url/:id over stored Click documents *)

\* A variant of AnalyticsOptions that loses the start of the range.
AnalyticsOptions_noStart(startDate, endDate, excludeBots) ==
    [excludeBots |-> IF excludeBots = Omitted THEN TRUE
                     ELSE excludeBots = "true",
     startDate |-> NoDate,
     endDate |-> endDate]

\* const { startDate, endDate, excludeBots = 'true' } = req.query; a date
\* the query does not carry (NoDate) is left out of the options.
AnalyticsOptions(startDate, endDate, excludeBots) ==
    [excludeBots |-> IF excludeBots = Omitted THEN TRUE
                     ELSE excludeBots = "true",
     startDate |-> startDate,
     endDate |-> endDate]

\* analyticsService.getUrlAnalytics(urlId, options): overview.totalClicks,
\* as section 3 of the specification describes it.
UrlAnalyticsTotal(urlId, options) ==
    Cardinality({k \in clicks :
        /\ k.urlId = urlId
        /\ options.startDate # NoDate => k.clickedAt >= options.startDate
        /\ options.endDate # NoDate => k.clickedAt <= options.endDate
        /\ options.excludeBots => ~k.isBot})

GetUrlAnalytics(p, urlId, startDate, endDate, excludeBots) ==
    /\ LET c == [Idle EXCEPT !.op = "getUrlAnalytics", !.urlId = urlId,
                             !.startDate = startDate, !.endDate = endDate,
                             !.excludeBots = excludeBots]
           options == AnalyticsOptions(startDate, endDate, excludeBots) IN
       Begin(p, Done([c EXCEPT !.http = 200],
                     [NoResult EXCEPT !.status = "ok", !.id = urlId,
                         !.total = UrlAnalyticsTotal(urlId, options)]))
    /\ UNCHANGED <<urls, urlCount, clicks, now, nextId>>

\* The Click documents a link created on day 1 can have by day MaxTime,
\* with the fields the analytics query reads; all come from one address.
ClickDocs(id) ==
    [id : {id}, urlId : 1..2, isBot : BOOLEAN, clickedAt : 1..MaxTime]

\* Link l with the counters that the recordings of the clicks ks left on it.
Clicked(l, ks) ==
    LET own == {k \in ks : k.urlId = l.id} IN
    IF own = {} THEN l
    ELSE [l EXCEPT !.clickCount = Cardinality(own),
                   !.uniqueClicks = 1,
                   !.lastClickedAt =
                       CHOOSE t \in {k.clickedAt : k \in own} :
                           \A k \in own : k.clickedAt <= t]

\* Two links of u1 created on day 1 and up to MaxClicks recorded clicks.
InitAnalytics ==
    /\ \E n \in 0..MaxClicks :
          \E f \in [1..n -> UNION {ClickDocs(i) : i \in 1..n}] :
             /\ \A i \in 1..n : f[i].id = i
             /\ clicks = {f[i] : i \in 1..n}
             /\ urls = {Clicked(Stored(1, UrlA, CodeA, "u1", 1), clicks),
                        Clicked(Stored(2, UrlB, CodeZ, "u1", 1), clicks)}
    /\ urlCount = [u \in Users |-> IF u = "u1" THEN 2 ELSE 0]
    /\ now = MaxTime
    /\ nextId = MaxClicks + 3
    /\ started = 0
    /\ calls = [p \in Procs |-> Idle]

NextAnalytics ==
    /\ started < MaxAnalyticsCalls
    /\ \E p \in Procs, urlId \in {1},
          startDate \in {NoDate} \cup 0..MaxTime,
          endDate \in {NoDate} \cup 0..MaxTime,
          excludeBots \in {Omitted, "true", "false"} :
            GetUrlAnalytics(p, urlId, startDate, endDate, excludeBots)

SpecAnalytics == InitAnalytics /\ [][NextAnalytics]_vars

----------------------------------------------------------------------------
(* urlService.toggleUrlStatus *)

TogglePrefix == "Toggle URL status failed"
ErrToggleDenied == "URL not found or you don't have permission"

\* findOne({_id: urlId, userId}), then url.isActive = !url.isActive in memory
ToggleUrlStatus(p, urlId, user) ==
    /\ LET c == [Idle EXCEPT !.op = "toggleUrlStatus", !.urlId = urlId,
                             !.userId = user]
           m == MatchOwned(urlId, user) IN
       IF m = {}
       THEN Begin(p, Done(c, Failed(TogglePrefix, ErrToggleDenied,
                                    \E l \in urls : l.id = urlId)))
       ELSE \E url \in m :
            Begin(p, [c EXCEPT !.pc = "toggleSave",
                               !.doc = [url EXCEPT !.isActive = ~@]])
    /\ UNCHANGED <<urls, urlCount, clicks, now, nextId>>

\* url.save(): $set of isActive on the document with that _id; it throws
\* when the document is gone.
ToggleUrlStatusSave(p) ==
    /\ calls[p].op = "toggleUrlStatus" /\ calls[p].pc = "toggleSave"
    /\ LET doc == calls[p].doc
           m == {l \in urls : l.id = doc.id} IN
       IF m = {}
       THEN /\ Finish(p, Failed(TogglePrefix, "DocumentNotFoundError", FALSE))
            /\ UNCHANGED urls
       ELSE \E l \in m :
            /\ urls' = (urls \ {l})
                        \cup {[l EXCEPT !.isActive = doc.isActive]}
            /\ Finish(p, Ok(doc.id, FALSE))
    /\ UNCHANGED <<urlCount, clicks, now, nextId, started>>

----------------------------------------------------------------------------
(* Concurrent requests of an owner one link short of the limit *)

NextCap ==
    \/ /\ started < MaxCapCalls
       /\ \E p \in Procs, url \in {UrlA, UrlB}, alias \in {NoAlias, AliasGo} :
               CreateUrlCall(p, url, alias, "u1", 0)
    \/ \E p \in Procs : CreateUrlQuota(p)
    \/ \E p \in Procs : CreateUrlDedup(p)
    \/ \E p \in Procs : CreateUrlCheckAlias(p)
    \/ \E p \in Procs : CreateUrlGenerate(p)
    \/ \E p \in Procs : CreateUrlSave(p)
    \/ \E p \in Procs : CreateUrlInc(p)
    \/ /\ started < MaxCapCalls
       /\ \E p \in Procs :
               BulkCreateUrlsCall(p, <<Item(UrlB, NoAlias)>>, "u1", TRUE, FALSE)
    \/ \E p \in Procs : BulkCreateUrlsDup(p)
    \/ \E p \in Procs : BulkCreateUrlsInc(p)
    \/ /\ started < MaxCapCalls
       /\ \E p \in Procs, patch \in UpdatePatches : UpdateUrl(p, 1, "u1", patch)
    \/ /\ started < MaxCapCalls
       /\ \E p \in Procs : ToggleUrlStatus(p, 1, "u1")
    \/ \E p \in Procs : ToggleUrlStatusSave(p)
    \/ /\ started < MaxCapCalls
       /\ \E p \in Procs : DeleteUrlCall(p, 1, "u1", TRUE)
    \/ \E p \in Procs : DeleteUrlInc(p)

SpecCap == InitQuota /\ [][NextCap]_vars

----------------------------------------------------------------------------
(* Creations and deletions one after another, from the empty registry *)

NextCount ==
    \/ /\ started < MaxCountCalls
       /\ \E p \in SeqProcs, url \in {UrlA, UrlB}, alias \in {NoAlias, AliasGo} :
               CreateUrlCall(p, url, alias, "u1", 0)
    \/ \E p \in SeqProcs : CreateUrlQuota(p)
    \/ \E p \in SeqProcs : CreateUrlDedup(p)
    \/ \E p \in SeqProcs : CreateUrlCheckAlias(p)
    \/ \E p \in SeqProcs : CreateUrlGenerate(p)
    \/ \E p \in SeqProcs : CreateUrlSave(p)
    \/ \E p \in SeqProcs : CreateUrlInc(p)
    \/ /\ started < MaxCountCalls
       /\ \E p \in SeqProcs,
             items \in {<<Item(UrlA, NoAlias)>>,
                        <<Item(UrlA, NoAlias), Item(UrlB, NoAlias)>>} :
               BulkCreateUrlsCall(p, items, "u1", TRUE, FALSE)
    \/ \E p \in SeqProcs : BulkCreateUrlsDup(p)
    \/ \E p \in SeqProcs : BulkCreateUrlsInc(p)
    \/ /\ started < MaxCountCalls
       /\ \E p \in SeqProcs, urlId \in 1..MaxId :
               DeleteUrlCall(p, urlId, "u1", TRUE)
    \/ \E p \in SeqProcs : DeleteUrlInc(p)
    \/ /\ started < MaxCountCalls
       /\ \E p \in SeqProcs, urlIds \in {{1}, {1, 2}} :
               BulkDeleteUrlsCall(p, urlIds, "u1")
    \/ \E p \in SeqProcs : BulkDeleteUrlsInc(p)

SpecCount == Init /\ [][NextCount]_vars

----------------------------------------------------------------------------
(* Concurrent creations and reactivations of links for one URL *)

NextPair ==
    \/ /\ started < MaxPairCalls
       /\ \E p \in Procs, alias \in {NoAlias, AliasGo}, user \in {"u1", NoUser} :
               CreateUrlCall(p, UrlA, alias, user, 0)
    \/ \E p \in Procs : CreateUrlQuota(p)
    \/ \E p \in Procs : CreateUrlDedup(p)
    \/ \E p \in Procs : CreateUrlCheckAlias(p)
    \/ \E p \in Procs : CreateUrlGenerate(p)
    \/ \E p \in Procs : CreateUrlSave(p)
    \/ \E p \in Procs : CreateUrlInc(p)
    \/ /\ started < MaxPairCalls
       /\ \E p \in Procs :
               BulkCreateUrlsCall(p, <<Item(UrlA, NoAlias)>>, "u1", TRUE, FALSE)
    \/ \E p \in Procs : BulkCreateUrlsDup(p)
    \/ \E p \in Procs : BulkCreateUrlsInc(p)
    \/ /\ started < MaxPairCalls
       /\ \E p \in Procs, patch \in UpdatePatches : UpdateUrl(p, 1, "u1", patch)
    \/ /\ started < MaxPairCalls
       /\ \E p \in Procs : ToggleUrlStatus(p, 1, "u1")
    \/ \E p \in Procs : ToggleUrlStatusSave(p)

SpecPair == Init /\ [][NextPair]_vars

----------------------------------------------------------------------------
(* redirectController.getRedirectPreview and getPublicStats *)

\* Both handlers: getUrlByShortCode(shortCode) with incrementView left at its
\* default false, 404 for null, otherwise 200 with fields of the link (among
\* them originalUrl, for the preview, and totalClicks: url.clickCount).
PublicLookup(p, op, shortCode, withDestination) ==
    /\ LET c == [Idle EXCEPT !.op = op, !.code = shortCode]
           m == MatchActiveCode(shortCode) IN
       IF m = {}
       THEN Begin(p, Done([c EXCEPT !.http = 404], NotFound))
       ELSE \E url \in m :
            IF isExpired(url, now)
            THEN Begin(p, Done([c EXCEPT !.http = 404], NotFound))
            ELSE Begin(p, Done([c EXCEPT !.urlId = url.id, !.http = 200,
                                         !.location =
                                             IF withDestination
                                             THEN url.originalUrl
                                             ELSE NoUrl],
                               [Ok(url.id, FALSE) EXCEPT
                                   !.total = url.clickCount]))
    /\ UNCHANGED <<urls, urlCount, clicks, now, nextId>>

GetRedirectPreview(p, shortCode) ==
    PublicLookup(p, "getRedirectPreview", shortCode, TRUE)

GetPublicStats(p, shortCode) ==
    PublicLookup(p, "getPublicStats", shortCode, FALSE)

NextRead ==
    \/ /\ started < MaxReadCalls
       /\ \E p \in Procs, c \in {CodeA, CodeZ, AliasGo},
             incrementView \in BOOLEAN :
               GetUrlByShortCode(p, c, incrementView)
    \/ \E p \in Procs : GetUrlByShortCodeSave(p)
    \/ /\ started < MaxReadCalls
       /\ \E p \in Procs, c \in {CodeA, CodeZ, AliasGo} :
               GetRedirectPreview(p, c)
    \/ /\ started < MaxReadCalls
       /\ \E p \in Procs, c \in {CodeA, CodeZ, AliasGo} :
               GetPublicStats(p, c)
    \/ /\ started < MaxReadCalls
       /\ \E p \in Procs : HandleRedirect(p, CodeA, "10.0.0.1")
    \/ \E p \in Procs : RecordClickLoad(p)
    \/ \E p \in Procs : RecordClickInsert(p)
    \/ \E p \in Procs : UrlRecordClick(p)
    \/ Tick

SpecRead == InitRedirect /\ [][NextRead]_vars

\* ---- specifications end; properties follow ----

----------------------------------------------------------------------------
(* Properties *)

DoneCall(p, op) == calls[p].op = op /\ calls[p].pc = "done"

\* The step in which slot p's request returns.
Returns(p) == calls[p].pc # "done" /\ calls'[p].pc = "done"

\* A step that begins a request in slot p.
Begins(p) == Free(p) /\ started' = started + 1 /\ calls'[p] # calls[p]

\* C1: no two stored links have the same shortCode, and no two stored links
\* that carry a customAlias have the same customAlias.
C1_UniqueCodes ==
    \A l1, l2 \in urls :
        l1.id # l2.id =>
            /\ l1.shortCode # l2.shortCode
            /\ (l1.customAlias # NoAlias /\ l2.customAlias # NoAlias)
                  => l1.customAlias # l2.customAlias

\* Two links are stored, one under a custom alias, and an insert has been
\* turned down by a unique index.
C1_Witness ==
    /\ \E l1, l2 \in urls : l1.id # l2.id /\ l1.customAlias # NoAlias
    /\ \E p \in Procs : /\ DoneCall(p, "createUrl")
                        /\ calls[p].result.error
                              = <<CreatePrefix, ErrDuplicateKey>>

\* C2 (as claimed): of the createUrl calls that carry the same valid custom
\* alias with different originalUrls, one creates the link and each other
\* one fails with the alias-taken error.
C2_LoserGetsAliasTaken ==
    \A p, q \in Procs :
        ( /\ p # q
          /\ DoneCall(p, "createUrl") /\ DoneCall(q, "createUrl")
          /\ calls[p].customAlias # NoAlias
          /\ validateShortCode(calls[p].customAlias).isValid
          /\ calls[p].customAlias = calls[q].customAlias
          /\ calls[p].originalUrl # calls[q].originalUrl
          /\ calls[q].result.status = "ok" /\ calls[q].result.isNew )
        => /\ ~(calls[p].result.status = "ok" /\ calls[p].result.isNew)
           /\ calls[p].result.status = "error"
                 => calls[p].result.error = <<CreatePrefix, ErrAliasTaken>>

\* C3: shortCode and customAlias form one namespace: no link's customAlias
\* is another link's shortCode, and every code matches at most one link.
C3_OneNamespace ==
    /\ \A l1, l2 \in urls :
          (l1.id # l2.id /\ l1.customAlias # NoAlias)
             => l1.customAlias # l2.shortCode
    /\ \A c \in GenCodes \cup {AliasGo} : Cardinality(MatchCode(c)) <= 1

\* A link under a custom alias is stored next to a link under a generated
\* code, and a generated or chosen code has lost the race for its index entry.
C3_Witness ==
    /\ \E l1, l2 \in urls : /\ l1.customAlias # NoAlias
                            /\ l2.customAlias = NoAlias
    /\ \E p \in Procs : /\ calls[p].op \in {"createUrl", "bulkCreateUrls"}
                        /\ calls[p].customAlias = NoAlias
                        /\ calls[p].result.error
                              = <<CreatePrefix, ErrDuplicateKey>>

\* C9 (as claimed): a delete by the owner with hard=false keeps the record
\* and sets isActive to false; with hard=true it removes the record.
C9_SoftDeleteKeepsRecord ==
    [][\A p \in Procs :
          (Begins(p) /\ calls'[p].op = "deleteUrl"
             /\ \E l \in urls : /\ l.id = calls'[p].urlId
                                /\ l.userId = calls'[p].userId)
          => IF calls'[p].hard
             THEN \A l \in urls' : l.id # calls'[p].urlId
             ELSE \E l \in urls' : l.id = calls'[p].urlId /\ ~l.isActive]_vars

\* The error a caller sees for an id it may not touch, by operation only.
DeniedError(op) ==
    IF op = "updateUrl" THEN <<UpdatePrefix, ErrUpdateDenied>>
                        ELSE <<DeletePrefix, ErrDeleteDenied>>

C4_DuplicateReturnsExisting ==
    [][\A p \in SeqProcs :
          (Returns(p) /\ calls[p].op = "createUrl"
             /\ calls[p].userId # NoUser)
          => LET existing ==
                   {l \in urls : /\ l.originalUrl = calls[p].originalUrl
                                 /\ l.userId = calls[p].userId
                                 /\ l.isActive
                                 /\ l.id # calls[p].doc.id} IN
             existing # {}
                => /\ calls'[p].result.status = "ok"
                   /\ ~calls'[p].result.isNew
                   /\ \E l \in existing : calls'[p].result.id = l.id
                   /\ urls' = urls
                   /\ urlCount' = urlCount]_vars

\* What a lookup of code c may return when the clock reads t, given which
\* expiry dates still count as live.
ResolvesOnlyLive(p, live(_, _)) ==
    (Begins(p) /\ calls'[p].op = "getUrlByShortCode")
    => LET c == calls'[p].code
           found == calls'[p].urlId IN
       /\ found # NoId
             => \E l \in urls :
                   /\ l.id = found
                   /\ (l.shortCode = c \/ l.customAlias = c)
                   /\ l.isActive
                   /\ (l.expiresAt = NoDate \/ live(l.expiresAt, now))
       /\ (\A l \in urls :
              (l.shortCode = c \/ l.customAlias = c)
                 => (~l.isActive
                       \/ (l.expiresAt # NoDate /\ l.expiresAt < now)))
             => /\ calls'[p].pc = "done"
                /\ calls'[p].result = NotFound

StrictlyLater(d, t) == d > t
NotEarlier(d, t) == d >= t

\* C5 (as claimed): getUrlByShortCode(c) returns a link only if the link
\* matches c, is active and has expiresAt null or in the future; for a
\* deactivated and for an expired link it returns the same null.
C5_ResolveOnlyFuture ==
    [][\A p \in SeqProcs : ResolvesOnlyLive(p, StrictlyLater)]_vars

\* C5 (amended): getUrlByShortCode(c) returns a link only if the link
\* matches c, is active and has expiresAt null or not earlier than the
\* current time; for a deactivated link and for a link whose expiresAt has
\* passed it returns the same null.
C5_ResolveNotExpired ==
    [][\A p \in SeqProcs : ResolvesOnlyLive(p, NotEarlier)]_vars

\* A lookup has answered null for the code of a stored, active link whose
\* expiresAt has passed.
C5_Witness ==
    \E p \in SeqProcs :
        /\ DoneCall(p, "getUrlByShortCode")
        /\ calls[p].result = NotFound
        /\ \E l \in urls : /\ l.shortCode = calls[p].code
                           /\ l.isActive
                           /\ l.expiresAt # NoDate /\ l.expiresAt < now

\* C6 (as claimed): every link has uniqueClicks <= clickCount, under any
\* interleaving of click recordings and view increments.
C6_UniqueAtMostClicks ==
    \A l \in urls : l.uniqueClicks <= l.clickCount

\* C7 (as claimed): once the concurrent click recordings on a link have all
\* completed, clickCount has grown by their number and uniqueClicks by the
\* number of them classified unique.
C7_NoLostClick ==
    (\A p \in Procs : Free(p))
    => \A l \in urls :
          /\ l.clickCount = Cardinality({k \in clicks : k.urlId = l.id})
          /\ l.uniqueClicks
                = Cardinality({k \in clicks : k.urlId = l.id /\ k.isUnique})

\* C8: a cleanup request with dryRun true or not sent leaves the set of
\* Click records as it was, whatever retentionDays is.
C8_DryRunKeepsClicks ==
    [][\A p \in Procs :
          (Begins(p) /\ calls'[p].op = "cleanup"
             /\ calls'[p].dryRun \in {Omitted, "true"})
          => clicks' = clicks]_vars

\* A dry run by an admin has counted records older than the cutoff, and
\* they are still stored.
C8_Witness ==
    \E p \in Procs :
        /\ DoneCall(p, "cleanup")
        /\ calls[p].dryRun \in {Omitted, "true"}
        /\ calls[p].result.status = "ok"
        /\ calls[p].result.counts[1] > 0
        /\ \E k \in clicks : k.clickedAt < now

\* The step in which slot p's request completes, whether it had awaited or
\* fails in its synchronous prefix.
Completes(p) == calls'[p].pc = "done" /\ calls'[p] # calls[p]

\* The active links of a user.
ActiveOf(user) == {l \in urls : l.userId = user /\ l.isActive}

\* The active links the user of slot p's request owned before the request
\* stored anything.
OwnedBefore(p) ==
    {l \in ActiveOf(calls'[p].userId) : l.id # calls[p].doc.id}

WellFormed(url) == url.protocol \in {"http:", "https:"} /\ url.length <= maxUrlLength

\* What C11 asks of a createUrl call of slot p that completes while its
\* user owns UrlLimit or more active links, for the calls that satisfy ok.
RefusedAtLimit(p, ok(_)) ==
    ( /\ Completes(p) /\ calls'[p].op = "createUrl"
      /\ calls'[p].userId # NoUser
      /\ Cardinality(OwnedBefore(p)) >= UrlLimit
      /\ ok(calls'[p]) )
    => /\ calls'[p].result.status = "error"
       /\ calls'[p].result.error = <<CreatePrefix, ErrUrlLimit>>
       /\ urls' = urls
       /\ urlCount' = urlCount

AnyCall(c) == TRUE
WellFormedCall(c) == WellFormed(c.originalUrl)

\* C11 (as claimed): createUrl for a userId that owns 20 active links fails
\* with the URL-limit error, creates no link and leaves urlCount unchanged.
C11_LimitRefuses ==
    [][\A p \in SeqProcs : RefusedAtLimit(p, AnyCall)]_vars

\* C11 (amended): createUrl with a well-formed originalUrl for a userId that
\* owns 20 active links fails with the URL-limit error, creates no link and
\* leaves urlCount unchanged; a malformed originalUrl is refused before the
\* limit is looked at, and it too creates nothing.
C11_LimitRefusesWellFormed ==
    [][\A p \in SeqProcs :
          /\ RefusedAtLimit(p, WellFormedCall)
          /\ ( /\ Completes(p) /\ calls'[p].op = "createUrl"
               /\ calls'[p].userId # NoUser
               /\ Cardinality(OwnedBefore(p)) >= UrlLimit )
             => /\ calls'[p].result.status = "error"
                /\ urls' = urls /\ urlCount' = urlCount]_vars

\* A user with exactly 20 active links has been refused a further link for
\* a URL it has no link for.
C11_Witness ==
    \E p \in SeqProcs :
        /\ DoneCall(p, "createUrl")
        /\ calls[p].result.error = <<CreatePrefix, ErrUrlLimit>>
        /\ Cardinality(ActiveOf(calls[p].userId)) = UrlLimit
        /\ urlCount[calls[p].userId] = UrlLimit
        /\ ~\E l \in urls : l.originalUrl = calls[p].originalUrl

\* What C12 asks of a createUrl call of slot p that completes with a custom
\* alias that a stored link for another originalUrl carries as shortCode or
\* customAlias, for the calls that satisfy ok.
TakenAliasRefused(p, ok(_)) ==
    ( /\ Completes(p) /\ calls'[p].op = "createUrl"
      /\ calls'[p].customAlias # NoAlias
      /\ \E l \in urls :
            /\ (l.shortCode = calls'[p].customAlias
                  \/ l.customAlias = calls'[p].customAlias)
            /\ l.originalUrl # calls'[p].originalUrl
      /\ ok(calls'[p]) )
    => /\ calls'[p].result.status = "error"
       /\ calls'[p].result.error = <<CreatePrefix, ErrAliasTaken>>
       /\ urls' = urls
       /\ urlCount' = urlCount

\* The caller is anonymous, or is below the limit and has no active link
\* for the URL it submits.
ReachesAllocation(c) ==
    /\ WellFormed(c.originalUrl)
    /\ c.userId # NoUser
          => /\ Cardinality(ActiveOf(c.userId)) < UrlLimit
             /\ ~\E l \in ActiveOf(c.userId) : l.originalUrl = c.originalUrl

\* C12 (as claimed): createUrl with a custom alias equal to the shortCode or
\* customAlias of a stored link, and a different originalUrl, fails with
\* 'Custom alias is already taken' and changes nothing.
C12_TakenAliasFails ==
    [][\A p \in SeqProcs : TakenAliasRefused(p, AnyCall)]_vars

\* C12 (amended): the same, for a call that gets as far as allocating a
\* code: a well-formed originalUrl, and a caller that is anonymous or is
\* below the limit of 20 active links and has no active link for that
\* originalUrl.
C12_TakenAliasFailsAtAllocation ==
    [][\A p \in SeqProcs : TakenAliasRefused(p, ReachesAllocation)]_vars

\* The alias-taken error has been returned for an alias that is the
\* generated shortCode of a stored link for another URL.
C12_Witness ==
    \E p \in SeqProcs :
        /\ DoneCall(p, "createUrl")
        /\ calls[p].result.error = <<CreatePrefix, ErrAliasTaken>>
        /\ \E l \in urls : /\ l.shortCode = calls[p].customAlias
                           /\ l.customAlias = NoAlias
                           /\ l.originalUrl # calls[p].originalUrl

\* The step in which a click recording of slot p loads its link: the start
\* of a direct recordClick call, or the first step of the recording that a
\* redirect started.
LoadsLink(p) ==
    \/ Begins(p) /\ calls'[p].op = "recordClick"
    \/ calls[p].pc = "clickLoad" /\ calls'[p] # calls[p]

\* No stored link with this id is active and not past its expiresAt.
Unavailable(urlId) ==
    ~\E l \in urls : /\ l.id = urlId
                      /\ l.isActive
                      /\ ~(l.expiresAt # NoDate /\ l.expiresAt < now)

\* C13: recordClick against a link that is missing, inactive or past its
\* expiresAt fails with 'URL not found or inactive', inserts no Click and
\* leaves every link's counters and lastClickedAt as they were.
C13_UnavailableRefused ==
    [][\A p \in Procs :
          (LoadsLink(p) /\ Unavailable(calls'[p].urlId))
          => /\ calls'[p].pc = "done"
             /\ calls'[p].result.status = "error"
             /\ calls'[p].result.error = <<"", ErrUnavailable>>
             /\ clicks' = clicks
             /\ urls' = urls]_vars

\* Recordings have been refused for a stored active link past its
\* expiresAt and for a stored link that is inactive.
C13_Witness ==
    /\ \E p \in Procs :
          /\ calls[p].pc = "done" /\ calls[p].op \in RecordingOps
          /\ calls[p].result.error = <<"", ErrUnavailable>>
          /\ \E l \in urls : /\ l.id = calls[p].urlId /\ l.isActive
                             /\ l.expiresAt # NoDate /\ l.expiresAt < now
    /\ \E p \in Procs :
          /\ calls[p].pc = "done" /\ calls[p].op \in RecordingOps
          /\ calls[p].result.error = <<"", ErrUnavailable>>
          /\ \E l \in urls : l.id = calls[p].urlId /\ ~l.isActive

\* The stored links that code c names and that are active and not past
\* their expiresAt.
Live(c) ==
    {l \in urls : /\ (l.shortCode = c \/ l.customAlias = c)
                  /\ l.isActive
                  /\ ~(l.expiresAt # NoDate /\ l.expiresAt < now)}

\* C14: for a code that names an active, non-expired link, handleRedirect
\* answers 302 with Location = the link's originalUrl in the step of its
\* lookup, before the recording has touched the database, and the response
\* stays what it is whatever the recording does afterwards.
C14_RedirectNeverWaits ==
    [][\A p \in Procs :
          /\ (Begins(p) /\ calls'[p].op = "handleRedirect"
                /\ Live(calls'[p].code) # {})
             => /\ calls'[p].http = 302
                /\ \E l \in Live(calls'[p].code) :
                      calls'[p].location = l.originalUrl
                /\ calls'[p].pc = "clickLoad"
                /\ clicks' = clicks /\ urls' = urls
          /\ (calls[p].op = "handleRedirect" /\ ~Begins(p))
             => /\ calls'[p].http = calls[p].http
                /\ calls'[p].location = calls[p].location]_vars

\* One redirect was answered 302 and its recording then failed; another was
\* answered 302 and its recording succeeded.
C14_Witness ==
    /\ \E p \in Procs :
          /\ DoneCall(p, "handleRedirect") /\ calls[p].http = 302
          /\ calls[p].location = UrlB
          /\ calls[p].result.status = "error"
    /\ \E p \in Procs :
          /\ DoneCall(p, "handleRedirect") /\ calls[p].http = 302
          /\ calls[p].location = UrlA
          /\ calls[p].result.status = "ok"

C15_GenerationBounded ==
    /\ [][\A p \in Procs :
            ( /\ calls[p].pc = "alias" /\ calls[p].customAlias = NoAlias
              /\ calls'[p] # calls[p] )
            => /\ calls[p].attempts < maxAttempts
               /\ \/ /\ calls'[p].pc = "save"
                     /\ calls'[p].doc.shortCode \in GenCodes
                     /\ \A l \in urls :
                           /\ l.shortCode # calls'[p].doc.shortCode
                           /\ l.customAlias # calls'[p].doc.shortCode
                  \/ /\ calls'[p].pc = "alias"
                     /\ calls'[p].attempts = calls[p].attempts + 1
                     /\ calls'[p].attempts < maxAttempts
                  \/ /\ calls'[p].pc = "done"
                     /\ calls[p].attempts = maxAttempts - 1
                     /\ calls'[p].result.error
                           = <<CreatePrefix, ErrExhausted>>]_vars
    /\ \A p \in Procs : (calls[p].pc = "alias") ~> (calls[p].pc # "alias")

\* One generation has given up after its 10th collision while another
\* request got a link under a generated code.
C15_Witness ==
    /\ \E p \in Procs :
          /\ DoneCall(p, "createUrl")
          /\ calls[p].result.error = <<CreatePrefix, ErrExhausted>>
    /\ \E p \in Procs, l \in urls :
          /\ DoneCall(p, "createUrl") /\ calls[p].result.isNew
          /\ l.id = calls[p].result.id /\ l.shortCode \in GenCodes

\* C16 (as claimed): every link's click-through rate is 0 when clickCount is
\* 0, otherwise 100 * uniqueClicks / clickCount rounded to two decimals (here
\* in hundredths: within half a hundredth of the exact quotient), and it
\* lies in [0, 100].
C16_RateInRange ==
    \A l \in urls :
        /\ l.clickCount = 0 => clickThroughRate(l) = 0
        /\ l.clickCount > 0
              => /\ 2 * l.clickCount * clickThroughRate(l)
                       <= 2 * 10000 * l.uniqueClicks + l.clickCount
                 /\ 2 * l.clickCount * clickThroughRate(l)
                       > 2 * 10000 * l.uniqueClicks - l.clickCount
        /\ clickThroughRate(l) >= 0
        /\ clickThroughRate(l) <= 100 * 100

\* C17 (as claimed): no step lowers a stored link's clickCount or
\* uniqueClicks.
C17_CountersNeverDrop ==
    [][\A l \in urls, m \in urls' :
          l.id = m.id => /\ m.clickCount >= l.clickCount
                         /\ m.uniqueClicks >= l.uniqueClicks]_vars

\* C18 (as claimed): when createUrl without a custom alias succeeds, the
\* returned link's shortCode passes validateShortCode, and in the state the
\* call returns in getUrlByShortCode of that code yields that link, with the
\* originalUrl that was submitted.  Only calls that take no time are looked
\* at: a document the call built was built at the present tick.
C18_GeneratedCodeResolves ==
    [][\A p \in SeqProcs :
          ( /\ Completes(p) /\ calls'[p].op = "createUrl"
            /\ calls'[p].customAlias = NoAlias
            /\ calls'[p].result.status = "ok"
            /\ calls[p].doc # NoDoc => calls[p].doc.createdAt = now )
          => \E l \in urls' :
                /\ l.id = calls'[p].result.id
                /\ validateShortCode(l.shortCode).isValid
                /\ l.originalUrl = calls'[p].originalUrl
                /\ ResolveNow(l.shortCode)' = {l}]_vars

\* C20 (as claimed, for bulkCreateUrls called with stopOnError off, as the
\* controller calls it): a call with 1 to 100 items returns its result,
\* whatever items fail; each item that cannot succeed is counted as failed;
\* and the successful, failed and skipped counts add up to the number of
\* items.
C20_BulkNeverFailsWhole ==
    [][\A p \in Procs :
          ( /\ Completes(p) /\ calls'[p].op = "bulkCreateUrls"
            /\ Len(calls'[p].items) >= 1 /\ Len(calls'[p].items) <= 100 )
          => LET items == calls'[p].items
                 counts == calls'[p].result.counts
                 bad == {i \in 1..Len(items) :
                            items[i].null \/ ~WellFormed(items[i].originalUrl)}
             IN
             /\ calls'[p].result.status = "ok"
             /\ counts[1] + counts[2] + counts[3] = Len(items)
             /\ counts[4] = Len(items)
             /\ counts[2] >= Cardinality(bad)]_vars

\* The step is one of slot p's request.
StepOf(p) == calls'[p] # calls[p]

\* C21: getUserUrls(U) lists only links whose owner is U; getUrlStats with
\* userId U returns only a link of U; and no step of updateUrl, deleteUrl or
\* bulkDeleteUrls called with userId U changes or removes a link of another
\* owner.
C21_OwnLinksOnly ==
    [][\A p \in Procs :
          /\ (Begins(p) /\ calls'[p].op = "getUserUrls")
             => \A i \in 1..Len(calls'[p].result.list) :
                   \E l \in urls : /\ l.id = calls'[p].result.list[i]
                                    /\ l.userId = calls'[p].userId
          /\ (Begins(p) /\ calls'[p].op = "getUrlStats"
                /\ calls'[p].result.status = "ok")
             => \E l \in urls : /\ l.id = calls'[p].result.id
                                 /\ l.userId = calls'[p].userId
          /\ (StepOf(p) /\ calls'[p].op \in {"updateUrl", "deleteUrl",
                                              "bulkDeleteUrls"})
             => /\ \A l \in urls :
                      l.userId # calls'[p].userId => l \in urls'
                /\ \A l \in urls' :
                      l.userId # calls'[p].userId => l \in urls
                /\ \A u \in Users :
                      u # calls'[p].userId => urlCount'[u] = urlCount[u]]_vars

\* u1 has asked for the statistics of u2's link and been refused, and has
\* bulk-deleted a list of ids that names u2's link, which is still stored.
C21_Witness ==
    /\ \E p \in Procs :
          /\ DoneCall(p, "getUrlStats") /\ calls[p].userId = "u1"
          /\ calls[p].result.status = "error" /\ calls[p].result.existed
    /\ \E p \in Procs :
          /\ DoneCall(p, "bulkDeleteUrls") /\ calls[p].userId = "u1"
          /\ calls[p].result.counts[1] = 1
          /\ \E l \in urls : l.id \in calls[p].urlIds /\ l.userId = "u2"

\* Two listings of the same owner with the same filter, sort and limit.
SameListing(p, q) ==
    /\ DoneCall(p, "getUserUrls") /\ DoneCall(q, "getUserUrls")
    /\ calls[p].userId = calls[q].userId
    /\ calls[p].limit = calls[q].limit
    /\ calls[p].sortBy = calls[q].sortBy
    /\ calls[p].sortOrder = calls[q].sortOrder
    /\ calls[p].isActive = calls[q].isActive

\* C22 (as claimed): with nothing written in between, two different pages
\* of the same listing have no link in common, and the same page requested
\* twice holds the same links in the same order.
C22_PagesPartition ==
    \A p, q \in Procs :
        (p # q /\ SameListing(p, q))
        => IF calls[p].page = calls[q].page
           THEN calls[p].result.list = calls[q].result.list
           ELSE \A i \in 1..Len(calls[p].result.list),
                   j \in 1..Len(calls[q].result.list) :
                     calls[p].result.list[i] # calls[q].result.list[j]

\* C23 (as claimed): popular({ownerId, days, minClicks, limit}) returns the
\* first `limit` links, by clickCount descending and then createdAt
\* descending, of the active links (of that owner, when one is given) with
\* clickCount >= minClicks that were clicked within the last `days` days.
C23_PopularByRecentClicks ==
    [][\A p \in Procs :
          (Begins(p) /\ calls'[p].op = "getPopularUrls"
             /\ calls'[p].retentionDays # 0)
          => LET c == calls'[p]
                 S == {l \in urls :
                         /\ l.isActive
                         /\ l.clickCount >= c.result.total
                         /\ c.userId # NoUser => l.userId = c.userId
                         /\ l.lastClickedAt # NoDate
                         /\ l.lastClickedAt >= now - c.retentionDays}
             IN \E f \in PopularOrderings(S) :
                   c.result.list = Slice(f, 0, c.limit)]_vars

\* An owner update that begins in this step, succeeds, and carries isActive.
Updates(p, isActive) ==
    /\ Begins(p)
    /\ calls'[p].op = "updateUrl"
    /\ calls'[p].result.status = "ok"
    /\ calls'[p].isActive = isActive

\* The link with that id resolves, in the next state, by the code of l and
\* agrees with l on the fields the updates must leave alone.
ResolvesAgain(l) ==
    \E r \in ResolveNow(l.shortCode)' :
        /\ r.id = l.id
        /\ r.originalUrl = l.originalUrl
        /\ r.shortCode = l.shortCode
        /\ r.customAlias = l.customAlias
        /\ r.clickCount = l.clickCount
        /\ r.uniqueClicks = l.uniqueClicks

\* While a link is deactivated its code does not resolve, and the update
\* that deactivated it left the other fields alone.
Deactivated ==
    /\ \A l \in urls' : ~l.isActive => l \notin ResolveNow(l.shortCode)'
    /\ \A p \in Procs : \A l \in urls :
          (Updates(p, "false") /\ l.id = calls'[p].result.id)
          => [l EXCEPT !.isActive = FALSE] \in urls'

\* C24 (as claimed): deactivating a link by an owner update and later
\* reactivating it is a round trip: while deactivated its code does not
\* resolve, and after the reactivation the code resolves again to the same
\* originalUrl with shortCode, customAlias, clickCount and uniqueClicks
\* unchanged by the updates.
C24_RoundTrip ==
    [][/\ Deactivated
       /\ \A p \in Procs : \A l \in urls :
             (Updates(p, "true") /\ l.id = calls'[p].result.id
                /\ ~l.isActive)
             => ResolvesAgain(l)]_vars

\* C24 (amended): the same, for a link whose expiresAt has not passed when
\* it is reactivated.
C24_RoundTripUnlessExpired ==
    [][/\ Deactivated
       /\ \A p \in Procs : \A l \in urls :
             (Updates(p, "true") /\ l.id = calls'[p].result.id
                /\ ~l.isActive /\ ~isExpired(l, now))
             => ResolvesAgain(l)]_vars

\* One request deactivated link 2 and another reactivated it afterwards,
\* before it expired; it has a click and resolves.
C24_Witness ==
    \E p, q \in Procs :
        /\ DoneCall(p, "updateUrl") /\ calls[p].result.status = "ok"
        /\ calls[p].isActive = "false" /\ calls[p].result.id = 2
        /\ DoneCall(q, "updateUrl") /\ calls[q].result.status = "ok"
        /\ calls[q].isActive = "true" /\ calls[q].result.id = 2
        /\ \E l \in ResolveNow(CodeZ) : l.id = 2 /\ l.clickCount > 0

\* C25: urlAnalytics(linkId, {startDate, endDate, excludeBots}) reports
\* overview.totalClicks equal to the number of Click records of that link
\* whose clickedAt lies in the requested range, counting only non-bot clicks
\* when excludeBots is set (by the request, or by the handler's default when
\* the request leaves it out); a range that ends before the link was created
\* yields 0 and no error.
C25_TotalClicksInRange ==
    \A p \in Procs :
        DoneCall(p, "getUrlAnalytics") =>
            LET c == calls[p]
                inRange == {k \in clicks :
                    /\ k.urlId = c.urlId
                    /\ c.startDate # NoDate => k.clickedAt >= c.startDate
                    /\ c.endDate # NoDate => k.clickedAt <= c.endDate}
                counted == IF c.excludeBots = "false" THEN inRange
                           ELSE {k \in inRange : ~k.isBot}
            IN /\ c.result.status = "ok"
               /\ c.result.total = Cardinality(counted)
               /\ \A l \in urls :
                     (l.id = c.urlId /\ c.endDate # NoDate
                        /\ c.endDate < l.createdAt) => c.result.total = 0

\* One request asked for a range before link 1 was created and got 0 although
\* the link has clicks; another asked for day 2 without bots and got 1 of the
\* 2 clicks of that day.
C25_Witness ==
    \E p, q \in Procs :
        /\ DoneCall(p, "getUrlAnalytics") /\ calls[p].urlId = 1
        /\ calls[p].startDate = 0 /\ calls[p].endDate = 0
        /\ calls[p].result.status = "ok" /\ calls[p].result.total = 0
        /\ DoneCall(q, "getUrlAnalytics") /\ calls[q].urlId = 1
        /\ calls[q].startDate = 2 /\ calls[q].endDate = 2
        /\ calls[q].excludeBots = "true" /\ calls[q].result.total = 1
        /\ Cardinality({k \in clicks : k.urlId = 1 /\ k.clickedAt = 2}) = 2

\* C26 (as claimed): in every state reachable through any interleaving of
\* createUrl, bulkCreateUrls, updateUrl, toggleUrlStatus and deleteUrl calls,
\* no user owns more than UrlLimit (20) active links.
C26_ActiveLinksCapped ==
    \A u \in Users : CountActive(u) <= UrlLimit

\* C27 (as claimed): after any sequence of createUrl, bulkCreateUrls,
\* deleteUrl and bulkDeleteUrls calls, each user's urlCount equals the number
\* of link records the user owns, and urlCount is never negative.
C27_UrlCountMatchesLinks ==
    /\ \A u \in Users : urlCount[u] >= 0
    /\ (\A p \in Procs : Free(p))
          => \A u \in Users :
                urlCount[u] = Cardinality({l \in urls : l.userId = u})

\* C28 (as claimed): in every state reachable through any interleaving of
\* createUrl, bulkCreateUrls, updateUrl and toggleUrlStatus calls, each
\* (originalUrl, owner) pair with a non-null owner has at most one active
\* link.
C28_OneActiveLinkPerPair ==
    \A l1, l2 \in urls :
        (/\ l1.userId # NoUser
         /\ l1.userId = l2.userId
         /\ l1.originalUrl = l2.originalUrl
         /\ l1.isActive /\ l2.isActive) => l1.id = l2.id

\* The returned link carries alias A as shortCode and as customAlias and is
\* what a lookup of A yields in the state the call returns in.
ReturnsAliased(p) ==
    \E l \in urls' :
        /\ l.id = calls'[p].result.id
        /\ l.shortCode = calls'[p].customAlias
        /\ l.customAlias = calls'[p].customAlias
        /\ ResolveNow(l.shortCode)' = {l}

\* A createUrl with a custom alias completes successfully in this step; a
\* document the call built was built at the present tick.
AliasedCreateSucceeds(p) ==
    /\ Completes(p) /\ calls'[p].op = "createUrl"
    /\ calls'[p].customAlias # NoAlias
    /\ calls'[p].result.status = "ok"
    /\ calls[p].doc # NoDoc => calls[p].doc.createdAt = now

\* C29 (as claimed): whenever createUrl called with custom alias A returns
\* successfully, the returned link has shortCode = customAlias = A, and
\* getUrlByShortCode(A) immediately afterwards returns that link.
C29_AliasIsTheCode ==
    [][\A p \in SeqProcs : AliasedCreateSucceeds(p) => ReturnsAliased(p)]_vars

\* C29 (amended): the same, whenever the call returns a newly created link
\* (isNew = true).
C29_AliasIsTheCodeWhenNew ==
    [][\A p \in SeqProcs :
          (AliasedCreateSucceeds(p) /\ calls'[p].result.isNew)
          => ReturnsAliased(p)]_vars

\* A createUrl with alias AliasGo has returned a new link, stored under that
\* alias, which a lookup of the alias yields.
C29_Witness ==
    \E p \in SeqProcs :
        /\ DoneCall(p, "createUrl") /\ calls[p].customAlias = AliasGo
        /\ calls[p].result.status = "ok" /\ calls[p].result.isNew
        /\ \E l \in ResolveNow(AliasGo) :
              /\ l.id = calls[p].result.id
              /\ l.shortCode = AliasGo /\ l.customAlias = AliasGo

\* The request c is a read-only lookup.
ReadOnly(c) ==
    \/ c.op \in {"getRedirectPreview", "getPublicStats"}
    \/ c.op = "getUrlByShortCode" /\ ~c.incrementView

\* C30: read-only lookups change nothing: a step of getUrlByShortCode with
\* incrementView = false, of the redirect preview or of the public stats
\* modifies no field of any link, records no click, and leaves no write
\* pending (the request is complete when its lookup has answered).
C30_ReadOnlyLookups ==
    [][\A p \in Procs :
          (calls'[p] # calls[p] /\ ReadOnly(calls'[p]))
          => /\ urls' = urls
             /\ clicks' = clicks
             /\ urlCount' = urlCount
             /\ calls'[p].pc = "done"]_vars

\* After a counted view of link 1, a preview and the public stats of its code
\* have both answered 200 with totalClicks 1; the link still has one view and
\* no click is recorded.
C30_Witness ==
    \E p, q \in Procs :
        /\ DoneCall(p, "getRedirectPreview") /\ calls[p].http = 200
        /\ calls[p].urlId = 1 /\ calls[p].result.total = 1
        /\ calls[p].location = UrlA
        /\ DoneCall(q, "getPublicStats") /\ calls[q].http = 200
        /\ calls[q].urlId = 1 /\ calls[q].result.total = 1
        /\ \E l \in urls : l.id = 1 /\ l.clickCount = 1 /\ l.uniqueClicks = 0
        /\ clicks = {}

====
